---- MODULE Spec2Model ----
(***************************************************************************)
(* The data-completeness reconciliation engine of Weather_Data_Analytics   *)
(* (weather_website/database_helper.py): the weather_data table with its   *)
(* unique key on (city, date), the insert-or-update statement of           *)
(* store_weather_data, the two completeness checks, the archive fetchers   *)
(* and the orchestration of get_or_fetch_city_data.                        *)
(*                                                                         *)
(* A date string 'YYYY-MM-DD' is the triple <<y, m, d>>; a float is an     *)
(* integer.  Requests are served one at a time (the helper is synchronous).*)
(***************************************************************************)
EXTENDS Integers, Sequences, FiniteSets, TLC

(***************************************************************************)
(* Bounds of the model.                                                    *)
(***************************************************************************)
\* first calendar year of the modelled archive
BaseYear == 2023
\* number of consecutive calendar years modelled
NumYears == 2
\* operations (requests, direct upserts, purges) begun in one behaviour
MaxOps == 2
\* revisions a directly upserted measurement may differ from the archive by
MaxRevision == 1

(***************************************************************************)
(* Program constants.                                                      *)
(***************************************************************************)
\* check_year_completeness: is_complete = count >= 360
CompleteDays == 360
\* check_date_range_coverage: coverage_ratio >= 0.8, as the fraction 4/5
CoverageNum == 4
CoverageDen == 5

(***************************************************************************)
(* Calendar: datetime.strptime, date subtraction, SQL DATE comparison.     *)
(***************************************************************************)
Years == BaseYear .. (BaseYear + NumYears - 1)

IsLeapYear(y) == y % 4 = 0 /\ (y % 100 # 0 \/ y % 400 = 0)

DaysInYear(y) == IF IsLeapYear(y) THEN 366 ELSE 365

DaysInMonth(y, m) ==
    IF m = 2 THEN (IF IsLeapYear(y) THEN 29 ELSE 28)
    ELSE IF m \in {4, 6, 9, 11} THEN 30 ELSE 31

\* datetime.strptime(dt, '%Y-%m-%d') succeeds: dt names a day of the calendar
WellFormed(dt) ==
    /\ dt[2] \in 1 .. 12
    /\ dt[3] \in 1 .. DaysInMonth(dt[1], dt[2])

\* days before the first of each month in a common year
CommonYearOffsets == <<0, 31, 59, 90, 120, 151, 181, 212, 243, 273, 304, 334>>

\* days of year y before the first of month m
DaysBeforeMonth(y, m) ==
    CommonYearOffsets[m] + (IF m > 2 /\ IsLeapYear(y) THEN 1 ELSE 0)

RECURSIVE DaysBeforeYear(_)
DaysBeforeYear(y) ==
    IF y <= BaseYear THEN 0 ELSE DaysBeforeYear(y - 1) + DaysInYear(y - 1)

\* datetime.toordinal, counted from BaseYear-01-01 = 1
ToOrdinal(dt) == DaysBeforeYear(dt[1]) + DaysBeforeMonth(dt[1], dt[2]) + dt[3]

\* (end_dt - start_dt).days
DaysBetween(start_date, end_date) == ToOrdinal(end_date) - ToOrdinal(start_date)

\* SQL comparison of two DATE values
DateLE(a, b) ==
    \/ a[1] < b[1]
    \/ a[1] = b[1] /\ a[2] < b[2]
    \/ a[1] = b[1] /\ a[2] = b[2] /\ a[3] <= b[3]

\* date(y, 1, 1) + timedelta(days = k - 1): the k-th day of year y
DayOfYear(y, k) ==
    LET m == CHOOSE mm \in 1 .. 12 :
                 /\ DaysBeforeMonth(y, mm) < k
                 /\ k <= DaysBeforeMonth(y, mm) + DaysInMonth(y, mm)
    IN  <<y, m, k - DaysBeforeMonth(y, m)>>

\* datetime.fromordinal: the date whose ToOrdinal is n
FromOrdinal(n) ==
    LET y == CHOOSE yy \in Years :
                 DaysBeforeYear(yy) < n /\ n <= DaysBeforeYear(yy) + DaysInYear(yy)
    IN  DayOfYear(y, n - DaysBeforeYear(y))

\* number of modelled days
TotalDays == DaysBeforeYear(BaseYear + NumYears - 1) + DaysInYear(BaseYear + NumYears - 1)

\* every modelled date, ascending: Calendar[ToOrdinal(dt)] = dt
Calendar == [n \in 1 .. TotalDays |-> FromOrdinal(n)]

\* the dates start_date .. end_date, ascending (empty when start is after end)
DateRange(start_date, end_date) ==
    SubSeq(Calendar, ToOrdinal(start_date), ToOrdinal(end_date))

\* int(date.split('-')[0]) and SQL YEAR(date)
YearOf(dt) == dt[1]

(***************************************************************************)
(* The outside world: place names, the geocoding index, the archive.       *)
(***************************************************************************)
\* place names a caller may pass; "Bombay" is an alias the geocoder resolves
\* to the canonical "Mumbai", "Atlantis" is known to no geocoder
PlaceNames == {"Mumbai", "Bombay", "Atlantis"}

\* data['results'][0] of the geocoding service for a place it knows
GeoEntry(city_name) ==
    [name |-> "Mumbai", country |-> "India", latitude |-> 19, longitude |-> 73]

GeoKnows(city_name) == city_name \in {"Mumbai", "Bombay"}

\* the archive's daily values at one date (historical data: fixed per date)
ArchiveTemperatureMax(dt) == 25 + (dt[3] % 5)
ArchiveTemperatureMin(dt) == 15 + (dt[3] % 5)
ArchiveRainSum(dt) == dt[3] % 2
ArchiveSunshineDuration(dt) == 3600 * (1 + (dt[3] % 3))

(***************************************************************************)
(* Table weather_data.  store[city][ToOrdinal(date)] is the sequence of    *)
(* rows carrying that (city, date), in insertion order: the table as seen  *)
(* through INDEX idx_city_date (city, date), the DATE key held as its day  *)
(* number.  The columns id, created_at and updated_at are read by no       *)
(* statement and are left out.                                             *)
(***************************************************************************)
EmptyTable == [c \in PlaceNames |-> [n \in 1 .. TotalDays |-> <<>>]]

\* the rows of the table with this city and date
RowsAt(table, city, dt) == table[city][ToOrdinal(dt)]

\* the row INSERT ... VALUES builds from one record of the batch
NewRow(record) ==
    [city              |-> record.city,
     country           |-> record.country,
     date              |-> record.date,
     temperature_max   |-> record.temperature_max,
     temperature_min   |-> record.temperature_min,
     rain_sum          |-> record.rain_sum,
     sunshine_duration |-> record.sunshine_duration,
     year              |-> YearOf(record.date),
     latitude          |-> record.latitude,
     longitude         |-> record.longitude]

\* first write wins: a conflicting row is left as it is (INSERT IGNORE)
KeepRow(row, record) == row

\* the conflicting row is replaced by the new record as a whole (REPLACE INTO)
ReplaceRow(row, record) == NewRow(record)

\* an update that assigns the two temperatures only
UpdateTemperatures(row, record) ==
    [row EXCEPT !.temperature_max = record.temperature_max,
                !.temperature_min = record.temperature_min]

\* ON DUPLICATE KEY UPDATE: the four assignments applied to an existing row
UpdateRow(row, record) ==
    [row EXCEPT !.temperature_max   = record.temperature_max,
                !.temperature_min   = record.temperature_min,
                !.rain_sum          = record.rain_sum,
                !.sunshine_duration = record.sunshine_duration]

\* a table without the unique key: no row ever conflicts
NoUniqueKey(table, record) == <<>>

\* UNIQUE KEY uniq_city_date (city, date): the rows a new row conflicts with
UniqCityDate(table, record) == RowsAt(table, record.city, record.date)

\* one cursor.execute(insert_query, ...): the table afterwards and
\* cursor.rowcount (1 inserted, 2 updated, 0 set to its current values;
\* ts_changed: CURRENT_TIMESTAMP differs from the row's updated_at)
ExecuteInsert(table, record, ts_changed) ==
    LET dup == UniqCityDate(table, record)
        old == RowsAt(table, record.city, record.date)
        at  == ToOrdinal(record.date)
    IN  IF dup = <<>>
        THEN [table    |-> [table EXCEPT ![record.city][at] =
                                Append(old, NewRow(record))],
              rowcount |-> 1]
        ELSE [table    |-> [table EXCEPT ![record.city][at] =
                                [i \in 1 .. Len(old) |-> UpdateRow(old[i], record)]],
              rowcount |-> IF \A i \in 1 .. Len(old) : UpdateRow(old[i], record) = old[i]
                           THEN (IF ts_changed THEN 2 ELSE 0)
                           ELSE 2]

\* one iteration of the loop of store_weather_data: execute, then count
StoreOne(acc, record, ts_changed) ==
    LET r == ExecuteInsert(acc.table, record, ts_changed)
    IN  [table          |-> r.table,
         inserted_count |-> acc.inserted_count + (IF r.rowcount = 1 THEN 1 ELSE 0),
         updated_count  |-> acc.updated_count + (IF r.rowcount = 2 THEN 1 ELSE 0),
         skipped_count  |-> acc.skipped_count + (IF r.rowcount \notin {1, 2} THEN 1 ELSE 0)]

\* the loop of store_weather_data over records lo .. hi of the batch, in
\* order (halved, the first half evaluated first, so that the evaluation stays shallow)
RECURSIVE StoreLoop(_, _, _, _, _)
StoreLoop(acc, weather_data, lo, hi, ts_changed) ==
    IF lo > hi THEN acc
    ELSE IF lo = hi THEN StoreOne(acc, weather_data[lo], ts_changed)
    ELSE LET mid  == (lo + hi) \div 2
             left == StoreLoop(acc, weather_data, lo, mid, ts_changed)
         IN  IF left.inserted_count >= 0
             THEN StoreLoop(left, weather_data, mid + 1, hi, ts_changed)
             ELSE left

\* a store that first deletes every row of the batch's city
StoreWeatherDataCleared(table, weather_data, ts_changed) ==
    IF weather_data = <<>>
    THEN [table |-> table, inserted_count |-> 0, updated_count |-> 0,
          skipped_count |-> 0, success |-> FALSE]
    ELSE LET r == StoreLoop([table |-> [table EXCEPT ![weather_data[1].city] =
                                           [n \in 1 .. TotalDays |-> <<>>]],
                             inserted_count |-> 0,
                             updated_count |-> 0, skipped_count |-> 0],
                            weather_data, 1, Len(weather_data), ts_changed)
         IN  [table |-> r.table, inserted_count |-> r.inserted_count,
              updated_count |-> r.updated_count, skipped_count |-> r.skipped_count,
              success |-> (r.inserted_count > 0 \/ r.updated_count > 0)]

\* store_weather_data(weather_data): the table after conn.commit(), the
\* three counters and the returned flag
StoreWeatherData(table, weather_data, ts_changed) ==
    IF weather_data = <<>>
    THEN [table |-> table, inserted_count |-> 0, updated_count |-> 0,
          skipped_count |-> 0, success |-> FALSE]
    ELSE LET r == StoreLoop([table |-> table, inserted_count |-> 0,
                             updated_count |-> 0, skipped_count |-> 0],
                            weather_data, 1, Len(weather_data), ts_changed)
         IN  [table |-> r.table, inserted_count |-> r.inserted_count,
              updated_count |-> r.updated_count, skipped_count |-> r.skipped_count,
              success |-> (r.inserted_count > 0 \/ r.updated_count > 0)]

\* store_weather_data(weather_data) when cursor.execute raises an error
\* other than 1062 for record number rejected: the error is raised again,
\* caught by the outer except, the transaction is rolled back and False is
\* returned; the counters are lost with the frame
StoreWeatherDataRejected(table, weather_data, ts_changed, rejected) ==
    IF weather_data = <<>> \/ rejected \notin 1 .. Len(weather_data)
    THEN StoreWeatherData(table, weather_data, ts_changed)
    ELSE [table |-> table, inserted_count |-> 0, updated_count |-> 0,
          skipped_count |-> 0, success |-> FALSE]

(***************************************************************************)
(* Reads.                                                                  *)
(***************************************************************************)
\* SELECT COUNT(DISTINCT date) ... WHERE city = %s AND YEAR(date) = %s
CountYear(table, city_name, year) ==
    Cardinality({n \in 1 .. TotalDays :
                    YearOf(Calendar[n]) = year /\ table[city_name][n] # <<>>})

\* SELECT COUNT(DISTINCT date) ... WHERE city = %s AND date BETWEEN %s AND %s
CountRange(table, city_name, start_date, end_date) ==
    Cardinality({n \in 1 .. TotalDays :
                    /\ DateLE(start_date, Calendar[n]) /\ DateLE(Calendar[n], end_date)
                    /\ table[city_name][n] # <<>>})

\* complete only with every day of the year, as has_complete_year_data of
\* fetching_data/database.py has it
CheckYearCompletenessExact(table, city_name, year) ==
    CountYear(table, city_name, year) = DaysInYear(year)

\* check_year_completeness(city_name, year)
CheckYearCompleteness(table, city_name, year) ==
    CountYear(table, city_name, year) >= CompleteDays

\* expected_days = (end_dt - start_dt).days + 1
ExpectedDays(start_date, end_date) == DaysBetween(start_date, end_date) + 1

\* coverage strictly above four fifths
CheckDateRangeCoverageStrict(table, city_name, start_date, end_date) ==
    LET count         == CountRange(table, city_name, start_date, end_date)
        expected_days == ExpectedDays(start_date, end_date)
    IN  IF expected_days > 0
        THEN count * CoverageDen > expected_days * CoverageNum
        ELSE FALSE

\* check_date_range_coverage(city_name, start_date, end_date); a date that
\* strptime does not accept leaves through the except clause; the float test
\* count / expected_days >= 0.8 is exact for these magnitudes:
\* count * 5 >= expected_days * 4
CheckDateRangeCoverage(table, city_name, start_date, end_date) ==
    LET count         == CountRange(table, city_name, start_date, end_date)
        expected_days == ExpectedDays(start_date, end_date)
    IN  IF ~(WellFormed(start_date) /\ WellFormed(end_date))
        THEN FALSE
        ELSE IF expected_days > 0
        THEN count * CoverageDen >= expected_days * CoverageNum
        ELSE FALSE

\* the columns get_city_data selects
Projection(row) ==
    [date              |-> row.date,
     temperature_max   |-> row.temperature_max,
     temperature_min   |-> row.temperature_min,
     rain_sum          |-> row.rain_sum,
     sunshine_duration |-> row.sunshine_duration]

\* SELECT DISTINCT over the rows of one date: equal projections collapse
RECURSIVE DistinctRows(_, _)
DistinctRows(rows, i) ==
    IF i > Len(rows) THEN <<>>
    ELSE IF \E j \in 1 .. (i - 1) : Projection(rows[j]) = Projection(rows[i])
         THEN DistinctRows(rows, i + 1)
         ELSE <<Projection(rows[i])>> \o DistinctRows(rows, i + 1)

\* the selected rows of the dates Calendar[lo] .. Calendar[hi], ORDER BY date
\* (halved, the first half evaluated first, so that the evaluation stays shallow)
RECURSIVE SelectFrom(_, _, _, _)
SelectFrom(table, city_name, lo, hi) ==
    IF lo > hi THEN <<>>
    ELSE IF lo = hi THEN DistinctRows(table[city_name][lo], 1)
    ELSE LET mid == (lo + hi) \div 2
         IN  SelectFrom(table, city_name, lo, mid)
               \o SelectFrom(table, city_name, mid + 1, hi)

\* the branch of get_city_data without dates: every row of the city
GetCityDataAll(table, city_name, start_date, end_date) ==
    SelectFrom(table, city_name, 1, TotalDays)

\* get_city_data(city_name, start_date, end_date): WHERE city = %s AND date
\* BETWEEN %s AND %s ORDER BY date
GetCityData(table, city_name, start_date, end_date) ==
    SelectFrom(table, city_name, ToOrdinal(start_date), ToOrdinal(end_date))

\* get_city_data when create_connection returns None or the query raises:
\* both paths return []
GetCityDataFailed(table, city_name, start_date, end_date) == <<>>

\* the days the server finds between two bounds by comparing year, month and
\* day in turn
DaysCompared(start_date, end_date) ==
    { n \in 1 .. TotalDays :
         DateLE(start_date, Calendar[n]) /\ DateLE(Calendar[n], end_date) }

\* get_city_data with a bound that is no date: the server rejects the
\* statement and [] is returned from the except clause, or it compares the
\* bounds as they are
GetCityDataCompared(table, city_name, start_date, end_date, rejected) ==
    LET days == DaysCompared(start_date, end_date)
    IN  IF rejected \/ days = {}
        THEN <<>>
        ELSE SelectFrom(table, city_name,
                        CHOOSE n \in days : \A m \in days : n <= m,
                        CHOOSE n \in days : \A m \in days : m <= n)

\* range(start_year, end_year): the last year left out
YearRangeExclusive(start_date, end_date) ==
    LET start_year == YearOf(start_date)
        end_year   == YearOf(end_date)
    IN  [i \in 1 .. (end_year - start_year) |-> start_year + i - 1]

\* get_year_range_from_date_range(start_date, end_date)
GetYearRangeFromDateRange(start_date, end_date) ==
    LET start_year == YearOf(start_date)
        end_year   == YearOf(end_date)
    IN  [i \in 1 .. (end_year + 1 - start_year) |-> start_year + i - 1]

(***************************************************************************)
(* Location resolver and archive fetcher.  The two services are inputs:    *)
(* geo is the geocoder's answer to each of the four search attempts, arch  *)
(* is the kind of the archive's answer, gap is what the archive lacks.     *)
(***************************************************************************)
\* answers of the geocoder to the four attempts of one get_city_coordinates:
\* a result at once, a failed request, no result for any spelling
GeoBehaviours ==
    { <<"hit", "hit", "hit", "hit">>,
      <<"error", "hit", "hit", "hit">>,
      <<"empty", "empty", "empty", "empty">> }

\* the answers the geocoder can give for city_name: no hit for an unknown place
GeoAnswers(city_name) ==
    { g \in GeoBehaviours : GeoKnows(city_name) \/ \A i \in 1 .. 4 : g[i] # "hit" }

\* the geocoder returns a result to the first attempt
Resolves(geo) == geo[1] = "hit"

NoCoordinates == [found |-> FALSE, name |-> "", country |-> "", latitude |-> 0, longitude |-> 0]

\* the for loop of get_city_coordinates from attempt i on; an exception of
\* requests.get or response.json leaves through the except clause
RECURSIVE TryAttempts(_, _, _)
TryAttempts(city_name, geo, i) ==
    IF i > Len(geo) THEN NoCoordinates
    ELSE IF geo[i] = "error" THEN NoCoordinates
    ELSE IF geo[i] = "hit"
         THEN [found     |-> TRUE,
               name      |-> GeoEntry(city_name).name,
               country   |-> GeoEntry(city_name).country,
               latitude  |-> GeoEntry(city_name).latitude,
               longitude |-> GeoEntry(city_name).longitude]
    ELSE TryAttempts(city_name, geo, i + 1)

\* get_city_coordinates(city_name)
GetCityCoordinates(city_name, geo) == TryAttempts(city_name, geo, 1)

\* trailing days of every calendar year the archive may lack: none, or as
\* many as leave a common year at CompleteDays or one short of it
Gaps == {0, 365 - CompleteDays, 366 - CompleteDays}

\* the archive holds dt: all of a year but its last gap days
Archived(gap, dt) ==
    ToOrdinal(dt) - DaysBeforeYear(YearOf(dt)) <= DaysInYear(YearOf(dt)) - gap

\* answers of the archive to one request: a transport error, a payload
\* without 'daily' (always so for a reversed range or a date that is none),
\* the daily arrays, or
\* daily arrays of which some are shorter than 'time'
ArchiveAnswers(start_date, end_date) ==
    IF /\ WellFormed(start_date) /\ WellFormed(end_date)
       /\ ExpectedDays(start_date, end_date) > 0
    THEN {"error", "refused", "daily", "short"}
    ELSE {"error", "refused"}

\* what the two services answer during one fetch, <<geo, arch>>: the archive
\* is asked only when the geocoder has resolved the place
NetworkAnswers(city_name, start_date, end_date) ==
    { na \in GeoAnswers(city_name) \X ArchiveAnswers(start_date, end_date) :
         Resolves(na[1]) \/ na[2] = "error" }

\* data['daily'] with the archive's values for the dates of time
DailyArrays(time) ==
    [time               |-> time,
     temperature_2m_max |-> [i \in 1 .. Len(time) |-> ArchiveTemperatureMax(time[i])],
     temperature_2m_min |-> [i \in 1 .. Len(time) |-> ArchiveTemperatureMin(time[i])],
     rain_sum           |-> [i \in 1 .. Len(time) |-> ArchiveRainSum(time[i])],
     sunshine_duration  |-> [i \in 1 .. Len(time) |-> ArchiveSunshineDuration(time[i])]]

\* data['daily'] of an answer of kind "daily": one entry per requested day
\* the archive holds, ascending
DailyData(gap, start_date, end_date) ==
    DailyArrays(SelectSeq(DateRange(start_date, end_date), LAMBDA dt : Archived(gap, dt)))

\* daily_data with its last two arrays stopping halfway
Shortened(daily_data) ==
    [daily_data EXCEPT
        !.rain_sum          = SubSeq(daily_data.rain_sum, 1, Len(daily_data.time) \div 2),
        !.sunshine_duration = SubSeq(daily_data.sunshine_duration, 1,
                                     Len(daily_data.time) \div 2)]

\* data['daily'] of an answer of kind "short"
ShortData(gap, start_date, end_date) == Shortened(DailyData(gap, start_date, end_date))

\* data['daily'] of an answer with daily arrays
ArchiveData(arch, gap, start_date, end_date) ==
    IF arch = "short"
    THEN ShortData(gap, start_date, end_date)
    ELSE DailyData(gap, start_date, end_date)

\* the iteration ending the loop without an error at the first index past
\* the end of an array
ProcessOnePartial(acc, daily_data, coordinates, i) ==
    IF \/ i > Len(daily_data.rain_sum)
       \/ i > Len(daily_data.sunshine_duration)
       \/ daily_data.time[i] \in acc.seen_dates
    THEN acc
    ELSE [raised         |-> FALSE,
          seen_dates     |-> acc.seen_dates \cup {daily_data.time[i]},
          processed_data |->
              Append(acc.processed_data,
                     [date              |-> daily_data.time[i],
                      temperature_max   |-> daily_data.temperature_2m_max[i],
                      temperature_min   |-> daily_data.temperature_2m_min[i],
                      rain_sum          |-> daily_data.rain_sum[i],
                      sunshine_duration |-> daily_data.sunshine_duration[i],
                      city              |-> coordinates.name,
                      country           |-> coordinates.country,
                      latitude          |-> coordinates.latitude,
                      longitude         |-> coordinates.longitude])]

\* the iteration without its test of seen_dates
ProcessOneUnseen(acc, daily_data, coordinates, i) ==
    IF \/ acc.raised
       \/ i > Len(daily_data.rain_sum)
       \/ i > Len(daily_data.sunshine_duration)
    THEN [acc EXCEPT !.raised = TRUE]
    ELSE [acc EXCEPT !.processed_data =
        Append(acc.processed_data,
               [date              |-> daily_data.time[i],
                temperature_max   |-> daily_data.temperature_2m_max[i],
                temperature_min   |-> daily_data.temperature_2m_min[i],
                rain_sum          |-> daily_data.rain_sum[i],
                sunshine_duration |-> daily_data.sunshine_duration[i],
                city              |-> coordinates.name,
                country           |-> coordinates.country,
                latitude          |-> coordinates.latitude,
                longitude         |-> coordinates.longitude])]

\* one iteration of the reshaping loop of fetch_weather_data and
\* fetch_weather_data_for_year, at index i; raised: an index past the end of
\* an array has raised IndexError, which ends the loop
ProcessOne(acc, daily_data, coordinates, i) ==
    LET date_str == daily_data.time[i]
    IN  IF acc.raised \/ date_str \in acc.seen_dates
        THEN acc
        ELSE IF \/ i > Len(daily_data.temperature_2m_max)
                \/ i > Len(daily_data.temperature_2m_min)
                \/ i > Len(daily_data.rain_sum)
                \/ i > Len(daily_data.sunshine_duration)
        THEN [acc EXCEPT !.raised = TRUE, !.seen_dates = acc.seen_dates \cup {date_str}]
        ELSE [raised         |-> FALSE,
              seen_dates     |-> acc.seen_dates \cup {date_str},
              processed_data |->
                  Append(acc.processed_data,
                         [date              |-> date_str,
                          temperature_max   |-> daily_data.temperature_2m_max[i],
                          temperature_min   |-> daily_data.temperature_2m_min[i],
                          rain_sum          |-> daily_data.rain_sum[i],
                          sunshine_duration |-> daily_data.sunshine_duration[i],
                          city              |-> coordinates.name,
                          country           |-> coordinates.country,
                          latitude          |-> coordinates.latitude,
                          longitude         |-> coordinates.longitude])]

\* the loop for i in range(len(daily_data['time'])) over lo .. hi, in order
\* (halved, the first half evaluated first, so that the evaluation stays shallow)
RECURSIVE ProcessLoop(_, _, _, _, _)
ProcessLoop(acc, daily_data, coordinates, lo, hi) ==
    IF lo > hi THEN acc
    ELSE IF lo = hi THEN ProcessOne(acc, daily_data, coordinates, lo)
    ELSE LET mid  == (lo + hi) \div 2
             left == ProcessLoop(acc, daily_data, coordinates, lo, mid)
         IN  IF left.raised
             THEN left
             ELSE ProcessLoop(left, daily_data, coordinates, mid + 1, hi)

\* the loop from processed_data = [], seen_dates = set(): processed_data
\* after it, or raised
ProcessDaily(daily_data, coordinates) ==
    ProcessLoop([raised |-> FALSE, seen_dates |-> {}, processed_data |-> <<>>],
                daily_data, coordinates, 1, Len(daily_data.time))

\* one step of a request's trace: a check, a network call, a store or the
\* final read, with its outcome and the number of records it carried
Event(ev, start_date, end_date, ok, n) ==
    [ev |-> ev, start |-> start_date, end |-> end_date, ok |-> ok, n |-> n]

\* a fetcher that asks the archive although the resolver has returned None
FetchedUnresolved(resolved, fetch, start_date, end_date, arch, coordinates, processed) ==
    IF arch \notin {"daily", "short"} \/ processed.raised
    THEN [none |-> TRUE, data |-> <<>>,
          events |-> [i \in 1 .. Len(resolved) |->
                         Event(resolved[i], start_date, end_date, coordinates.found, 0)]
                     \o <<Event(fetch, start_date, end_date, FALSE, 0)>>]
    ELSE [none |-> FALSE,
          data |-> processed.processed_data,
          events |-> [i \in 1 .. Len(resolved) |->
                         Event(resolved[i], start_date, end_date, coordinates.found, 0)]
                     \o <<Event(fetch, start_date, end_date, TRUE,
                                Len(processed.processed_data))>>]

\* what a fetcher returns (none: None) and the network calls it has made, in
\* order: resolved are the calls of the resolver, processed is the outcome
\* of the reshaping loop
Fetched(resolved, fetch, start_date, end_date, arch, coordinates, processed) ==
    IF ~coordinates.found
    THEN [none |-> TRUE, data |-> <<>>,
          events |-> <<Event(resolved[1], start_date, end_date, FALSE, 0)>>]
    ELSE IF arch \notin {"daily", "short"} \/ processed.raised
    THEN [none |-> TRUE, data |-> <<>>,
          events |-> [i \in 1 .. Len(resolved) |->
                         Event(resolved[i], start_date, end_date, TRUE, 0)]
                     \o <<Event(fetch, start_date, end_date, FALSE, 0)>>]
    ELSE [none |-> FALSE,
          data |-> processed.processed_data,
          events |-> [i \in 1 .. Len(resolved) |->
                         Event(resolved[i], start_date, end_date, TRUE, 0)]
                     \o <<Event(fetch, start_date, end_date, TRUE,
                                Len(processed.processed_data))>>]

\* the reshaping loop applied to the archive's answer
Processed(arch, gap, start_date, end_date, coordinates) ==
    ProcessDaily(ArchiveData(arch, gap, start_date, end_date), coordinates)

\* the two fetchers once the place has been looked up
FetchedFor(resolved, fetch, start_date, end_date, arch, gap, coordinates) ==
    Fetched(resolved, fetch, start_date, end_date, arch, coordinates,
            Processed(arch, gap, start_date, end_date, coordinates))

\* fetch_weather_data building its records with the name it was called with
FetchWeatherDataRawName(city_name, start_date, end_date, geo, arch, gap) ==
    FetchedFor(<<"resolve_range">>, "fetch_range", start_date, end_date, arch, gap,
               [GetCityCoordinates(city_name, geo) EXCEPT !.name = city_name])

\* fetch_weather_data(city_name, start_date, end_date)
FetchWeatherData(city_name, start_date, end_date, geo, arch, gap) ==
    FetchedFor(<<"resolve_range">>, "fetch_range", start_date, end_date, arch, gap,
               GetCityCoordinates(city_name, geo))

\* fetch_weather_data_for_year resolving the place a second time before it
\* asks the archive
FetchWeatherDataForYearResolvingTwice(city_name, year, geo, arch, gap) ==
    FetchedFor(<<"resolve_year", "resolve_year">>, "fetch_year",
               <<year, 1, 1>>, <<year, 12, 31>>, arch, gap,
               GetCityCoordinates(city_name, geo))

\* fetch_weather_data_for_year(city_name, year)
FetchWeatherDataForYear(city_name, year, geo, arch, gap) ==
    FetchedFor(<<"resolve_year">>, "fetch_year",
               <<year, 1, 1>>, <<year, 12, 31>>, arch, gap,
               GetCityCoordinates(city_name, geo))

(***************************************************************************)
(* Orchestration.                                                          *)
(***************************************************************************)
\* the end of an ensure function after store_weather_data has returned
Stored(store_ev, check, fetched, stored) ==
    [table   |-> stored.table,
     ensured |-> stored.success,
     events  |-> <<check>> \o fetched.events
                  \o <<Event(store_ev, fetched.data[1].date,
                             fetched.data[Len(fetched.data)].date,
                             stored.success, Len(fetched.data))>>]

\* an ensure function from its fetch on: nothing fetched is a failure, what
\* was fetched is stored.  The store follows the previous statement on these
\* rows by more than the resolution of updated_at.
FetchAndStore(store_ev, table, check, fetched) ==
    IF fetched.none \/ fetched.data = <<>>
    THEN [table |-> table, ensured |-> FALSE,
          events |-> <<check>> \o fetched.events]
    ELSE Stored(store_ev, check, fetched, StoreWeatherData(table, fetched.data, TRUE))

\* an ensure function: the early return when the check is satisfied, else the
\* fetch and the store; the table afterwards, the value returned, the events
Ensured(store_ev, table, satisfied, check, fetched) ==
    IF satisfied
    THEN [table |-> table, ensured |-> TRUE, events |-> <<check>>]
    ELSE FetchAndStore(store_ev, table, check, fetched)

\* the check of ensure_year_data as an event
YearChecked(year, complete) ==
    Event("check_year", <<year, 1, 1>>, <<year, 12, 31>>, complete, 0)

\* ensure_year_data without its early return: the year is fetched whatever
\* the check says
EnsureYearDataAlways(table, city_name, year, geo, arch, gap) ==
    FetchAndStore("store_year", table,
                  YearChecked(year, CheckYearCompleteness(table, city_name, year)),
                  FetchWeatherDataForYear(city_name, year, geo, arch, gap))

\* ensure_year_data(city_name, year)
EnsureYearData(table, city_name, year, geo, arch, gap) ==
    LET complete == CheckYearCompleteness(table, city_name, year)
    IN  Ensured("store_year", table, complete, YearChecked(year, complete),
                FetchWeatherDataForYear(city_name, year, geo, arch, gap))

\* ensure_date_range_data with its test negated: a covered range is fetched,
\* an uncovered one is left alone
EnsureDateRangeDataNegated(table, city_name, start_date, end_date, geo, arch, gap) ==
    LET adequate == CheckDateRangeCoverage(table, city_name, start_date, end_date)
    IN  Ensured("store_range", table, ~adequate,
                Event("check_range", start_date, end_date, adequate, 0),
                FetchWeatherData(city_name, start_date, end_date, geo, arch, gap))

\* ensure_date_range_data without its early return
EnsureDateRangeDataAlways(table, city_name, start_date, end_date, geo, arch, gap) ==
    FetchAndStore("store_range", table,
                  Event("check_range", start_date, end_date,
                        CheckDateRangeCoverage(table, city_name, start_date, end_date), 0),
                  FetchWeatherData(city_name, start_date, end_date, geo, arch, gap))

\* ensure_date_range_data(city_name, start_date, end_date)
EnsureDateRangeData(table, city_name, start_date, end_date, geo, arch, gap) ==
    LET adequate == CheckDateRangeCoverage(table, city_name, start_date, end_date)
    IN  Ensured("store_range", table, adequate,
                Event("check_range", start_date, end_date, adequate, 0),
                FetchWeatherData(city_name, start_date, end_date, geo, arch, gap))

\* the loop over years left at the first year that could not be ensured
YearLoopBreak(idx, ensured) == IF ensured THEN idx + 1 ELSE NumYears + 1

\* lines 544-546: the loop over years goes on to the next year whatever
\* ensure_year_data returned (a failure only prints a line)
YearLoopNext(idx, ensured) == idx + 1

\* get_city_data at the end of get_or_fetch_city_data, and what it returns
\* (data if data else [])
FinalRead(table, city_name, start_date, end_date) ==
    LET data == GetCityData(table, city_name, start_date, end_date)
    IN  IF data # <<>> THEN data ELSE <<>>

(***************************************************************************)
(* Inputs of the operations.                                               *)
(***************************************************************************)
LastYear == BaseYear + NumYears - 1

\* (start_date, end_date) pairs a caller asks for: the last 25 days of the
\* first and of the last year, a span over a year boundary, a reversed range
YearEnd(y) == << <<y, 12, 7>>, <<y, 12, 31>> >>
OverNewYear == << <<BaseYear, 12, 22>>, <<BaseYear + 1, 1, 10>> >>
Reversed == << <<BaseYear, 1, 10>>, <<BaseYear, 1, 1>> >>

QueryRanges == { YearEnd(BaseYear), YearEnd(LastYear), OverNewYear, Reversed }

\* the requests made: every range for the canonical name, one range for the
\* alias and for the unknown place
Queries ==
    { <<"Mumbai", range>> : range \in QueryRanges }
    \cup { <<"Bombay", YearEnd(BaseYear)>>, <<"Atlantis", YearEnd(BaseYear)>> }

\* a record as a caller of store_weather_data may build it for a date:
\* revision 0 is the archive's data, a later revision changes every field
\* but the key
Record(city, dt, rev) ==
    [date              |-> dt,
     temperature_max   |-> ArchiveTemperatureMax(dt) + rev,
     temperature_min   |-> ArchiveTemperatureMin(dt) + 2 * rev,
     rain_sum          |-> ArchiveRainSum(dt) + 3 * rev,
     sunshine_duration |-> ArchiveSunshineDuration(dt) + 4 * rev,
     city              |-> city,
     country           |-> IF rev = 0 THEN GeoEntry(city).country ELSE "IN",
     latitude          |-> GeoEntry(city).latitude + rev,
     longitude         |-> GeoEntry(city).longitude + rev]

UpsertDates == { <<BaseYear, 12, 26>>, <<BaseYear, 12, 27>> }

\* batches handed to store_weather_data directly: one record, the same key
\* twice, two keys, and the empty batch
UpsertBatches ==
    { << Record("Mumbai", dt, rev) >> : dt \in UpsertDates, rev \in 0 .. MaxRevision }
    \cup { << Record("Mumbai", <<BaseYear, 12, 26>>, 0),
              Record("Mumbai", <<BaseYear, 12, 26>>, MaxRevision) >>,
           << Record("Mumbai", <<BaseYear, 12, 26>>, MaxRevision),
              Record("Mumbai", <<BaseYear, 12, 27>>, MaxRevision) >>,
           << >> }

(***************************************************************************)
(* State.                                                                  *)
(***************************************************************************)
VARIABLES
    store,     \* table weather_data
    pc,        \* position of the request being served: idle, range, years, done
    call,      \* arguments of get_or_fetch_city_data being served
    years,     \* get_year_range_from_date_range of the request
    yearIdx,   \* index into years of the next year to ensure
    trace,     \* events of the request being served, in order
    result,    \* what get_or_fetch_city_data returns
    atCall,    \* history: the two checks evaluated when the request arrived
    log,       \* history: the operations begun, with the batch of an upsert
    upserted,  \* counters and flag of the last direct store_weather_data
    missing,   \* trailing days of each year the archive lacks (never changes)
    prev,      \* history: arguments and result of the request served before
    response,  \* what an outside service answers to the function under study
    returned,  \* what the function under study has returned
    writers,   \* the transactions of concurrent store_weather_data calls
    applied,   \* history: the statements executed and not rolled back, in order
    main_table \* the rows of weather_data as fetching_data creates it, in id order

vars == <<store, pc, call, years, yearIdx, trace, result, atCall, log, upserted,
         missing, prev, response, returned, writers, applied, main_table>>

NoCall == [city_name |-> "", start_date |-> <<0, 0, 0>>, end_date |-> <<0, 0, 0>>]
NoHistory == [range_ok |-> FALSE, years_ok |-> FALSE]
NoPrev == [city_name |-> "", start_date |-> <<0, 0, 0>>, end_date |-> <<0, 0, 0>>,
           result |-> <<>>, served |-> FALSE]
NoWriters == <<>>
NoResponse == [of |-> "none"]
NoReturn == [by |-> "none"]
NoCounts == [inserted_count |-> 0, updated_count |-> 0, skipped_count |-> 0, success |-> FALSE]

Init ==
    /\ store = EmptyTable
    /\ pc = "idle"
    /\ call = NoCall
    /\ years = <<>>
    /\ yearIdx = 0
    /\ trace = <<>>
    /\ result = <<>>
    /\ atCall = NoHistory
    /\ log = <<>>
    /\ upserted = NoCounts
    /\ missing \in Gaps
    /\ prev = NoPrev
    /\ response = NoResponse
    /\ returned = NoReturn
    /\ writers = NoWriters
    /\ applied = <<>>
    /\ main_table = <<>>

\* get_or_fetch_city_data(city_name, start_date, end_date) is entered
Call(city_name, start_date, end_date) ==
    /\ pc = "idle"
    /\ Len(log) < MaxOps
    /\ pc' = "range"
    /\ call' = [city_name |-> city_name, start_date |-> start_date, end_date |-> end_date]
    /\ years' = <<>>
    /\ yearIdx' = 0
    /\ trace' = <<>>
    /\ result' = <<>>
    /\ atCall' = [range_ok |-> CheckDateRangeCoverage(store, city_name, start_date, end_date),
                  years_ok |-> \A y \in YearOf(start_date) .. YearOf(end_date) :
                                   CheckYearCompleteness(store, city_name, y)]
    /\ log' = Append(log, [op |-> "call", batch |-> <<>>])
    /\ UNCHANGED <<store, upserted, missing, prev,
                 response, returned,
                 writers, applied, main_table>>

\* line 537: ensure_date_range_data, then line 542: the years of the range
RangeStep ==
    /\ pc = "range"
    /\ \E na \in NetworkAnswers(call.city_name, call.start_date, call.end_date) :
          LET r == EnsureDateRangeData(store, call.city_name, call.start_date,
                                       call.end_date, na[1], na[2], missing)
          IN  /\ store' = r.table
              /\ trace' = trace \o r.events
    /\ years' = GetYearRangeFromDateRange(call.start_date, call.end_date)
    /\ yearIdx' = 1
    /\ pc' = "years"
    /\ UNCHANGED <<call, result, atCall, log, upserted, missing, prev,
                 response, returned,
                 writers, applied, main_table>>

\* lines 544-546: one iteration of the loop over years
YearStep ==
    /\ pc = "years"
    /\ yearIdx <= Len(years)
    /\ \E na \in NetworkAnswers(call.city_name, <<years[yearIdx], 1, 1>>, <<years[yearIdx], 12, 31>>) :
          LET r == EnsureYearData(store, call.city_name, years[yearIdx], na[1], na[2], missing)
          IN  /\ store' = r.table
              /\ trace' = trace \o r.events
              /\ yearIdx' = YearLoopNext(yearIdx, r.ensured)
    /\ UNCHANGED <<pc, call, years, result, atCall, log, upserted, missing, prev,
                 response, returned,
                 writers, applied, main_table>>

\* lines 548-556: the final read
ReadStep ==
    /\ pc = "years"
    /\ yearIdx > Len(years)
    /\ result' = FinalRead(store, call.city_name, call.start_date, call.end_date)
    /\ trace' = Append(trace, Event("read", call.start_date, call.end_date, TRUE, Len(result')))
    /\ pc' = "done"
    /\ UNCHANGED <<store, call, years, yearIdx, atCall, log, upserted, missing, prev,
                 response, returned,
                 writers, applied, main_table>>

\* the caller has taken the returned list
Return ==
    /\ pc = "done"
    /\ pc' = "idle"
    /\ call' = NoCall
    /\ years' = <<>>
    /\ yearIdx' = 0
    /\ trace' = <<>>
    /\ result' = <<>>
    /\ atCall' = NoHistory
    /\ UNCHANGED <<store, log, upserted, missing, prev,
                 response, returned,
                 writers, applied, main_table>>

\* store_weather_data(weather_data) called on its own
Upsert(weather_data) ==
    /\ pc = "idle"
    /\ Len(log) < MaxOps
    /\ \E ts_changed \in BOOLEAN :
          LET r == StoreWeatherData(store, weather_data, ts_changed)
          IN  /\ store' = r.table
              /\ upserted' = [inserted_count |-> r.inserted_count,
                              updated_count  |-> r.updated_count,
                              skipped_count  |-> r.skipped_count,
                              success        |-> r.success]
    /\ log' = Append(log, [op |-> "upsert", batch |-> weather_data])
    /\ UNCHANGED <<pc, call, years, yearIdx, trace, result, atCall, missing, prev,
                 response, returned,
                 writers, applied, main_table>>

\* a DELETE that also takes the rows of every other city
DeleteAll(table, city) == EmptyTable

\* DELETE FROM weather_data WHERE city = %s
DeleteCity(table, city) == [table EXCEPT ![city] = [n \in 1 .. TotalDays |-> <<>>]]

\* clear_cache(city): DELETE FROM weather_data WHERE city = %s
Purge(city) ==
    /\ pc = "idle"
    /\ Len(log) < MaxOps
    /\ store' = DeleteCity(store, city)
    /\ log' = Append(log, [op |-> "purge", batch |-> <<>>])
    /\ UNCHANGED <<pc, call, years, yearIdx, trace, result, atCall, upserted, missing, prev,
                 response, returned,
                 writers, applied, main_table>>

Next ==
    \/ \E q \in Queries : Call(q[1], q[2][1], q[2][2])
    \/ RangeStep
    \/ YearStep
    \/ ReadStep
    \/ Return
    \/ \E weather_data \in UpsertBatches : Upsert(weather_data)
    \/ \E city \in PlaceNames : Purge(city)

Spec == Init /\ [][Next]_vars

(***************************************************************************)
(* The same request made twice in succession, nothing in between.          *)
(***************************************************************************)
\* the caller has taken the returned list and keeps it to compare
ReturnAndKeep ==
    /\ pc = "done"
    /\ pc' = "idle"
    /\ prev' = [city_name |-> call.city_name, start_date |-> call.start_date,
                end_date |-> call.end_date, result |-> result, served |-> TRUE]
    /\ call' = NoCall
    /\ years' = <<>>
    /\ yearIdx' = 0
    /\ trace' = <<>>
    /\ result' = <<>>
    /\ atCall' = NoHistory
    /\ UNCHANGED <<store, log, upserted, missing, response, returned,
                 writers, applied, main_table>>

\* the first request, on the empty table
CallFirst(city_name, start_date, end_date) ==
    /\ ~prev.served
    /\ log = <<>>
    /\ Call(city_name, start_date, end_date)

\* get_or_fetch_city_data is entered again with the arguments of the
\* request just served
CallAgain ==
    /\ prev.served
    /\ Call(prev.city_name, prev.start_date, prev.end_date)

NextTwice ==
    \/ \E q \in Queries : CallFirst(q[1], q[2][1], q[2][2])
    \/ RangeStep
    \/ YearStep
    \/ ReadStep
    \/ ReturnAndKeep
    \/ CallAgain

SpecTwice == Init /\ [][NextTwice]_vars

(***************************************************************************)
(* The two checks on their own.  The table holds what a fetch of every     *)
(* year leaves when the archive lacks the last `missing` days of each      *)
(* year; the checks are then applied and their answers recorded in trace.  *)
(***************************************************************************)
\* the most trailing days of a year the archive lacks
MaxGap == 7
\* the most checks recorded
MaxChecks == 2

\* the table after ensure_year_data of every year up to y for Mumbai
RECURSIVE FetchedUpTo(_, _)
FetchedUpTo(gap, y) ==
    IF y < BaseYear THEN EmptyTable
    ELSE EnsureYearData(FetchedUpTo(gap, y - 1), "Mumbai", y,
                        <<"hit", "hit", "hit", "hit">>, "daily", gap).table

\* the city with rows and one without
CheckedCities == {"Mumbai", "Bombay"}

InitChecks ==
    /\ missing \in 0 .. MaxGap
    /\ prev = NoPrev
    /\ response = NoResponse
    /\ returned = NoReturn
    /\ store = FetchedUpTo(missing, LastYear)
    /\ pc = "idle"
    /\ call = NoCall
    /\ years = <<>>
    /\ yearIdx = 0
    /\ trace = <<>>
    /\ result = <<>>
    /\ atCall = NoHistory
    /\ log = <<>>
    /\ upserted = NoCounts
    /\ writers = NoWriters
    /\ applied = <<>>
    /\ main_table = <<>>

\* check_year_completeness(city_name, year) is called
CheckYear(city_name, year) ==
    /\ Len(trace) < MaxChecks
    /\ call = NoCall \/ call.city_name = city_name
    /\ call' = [city_name |-> city_name, start_date |-> <<year, 1, 1>>,
                end_date |-> <<year, 12, 31>>]
    /\ trace' = Append(trace, Event("check_year", <<year, 1, 1>>, <<year, 12, 31>>,
                                    CheckYearCompleteness(store, city_name, year), 0))
    /\ UNCHANGED <<store, pc, years, yearIdx, result, atCall, log, upserted, missing, prev,
                 response, returned,
                 writers, applied, main_table>>

\* check_date_range_coverage(city_name, start_date, end_date) is called
CheckRange(city_name, start_date, end_date) ==
    /\ Len(trace) < MaxChecks
    /\ call = NoCall \/ call.city_name = city_name
    /\ call' = [city_name |-> city_name, start_date |-> start_date, end_date |-> end_date]
    /\ trace' = Append(trace, Event("check_range", start_date, end_date,
                                    CheckDateRangeCoverage(store, city_name,
                                                           start_date, end_date), 0))
    /\ UNCHANGED <<store, pc, years, yearIdx, result, atCall, log, upserted, missing, prev,
                 response, returned,
                 writers, applied, main_table>>

NextChecks ==
    \/ \E city_name \in CheckedCities, year \in Years : CheckYear(city_name, year)
    \/ \E city_name \in CheckedCities, range \in QueryRanges :
          CheckRange(city_name, range[1], range[2])

SpecChecks == InitChecks /\ [][NextChecks]_vars

(***************************************************************************)
(* The reshaping loop of the two fetchers on its own, applied to archive   *)
(* answers in which a date may occur at several indices and the last two   *)
(* arrays may be one entry shorter than 'time'.                            *)
(***************************************************************************)
MaxEntries == 3

\* the dates an answer may list
TimeEntries == { Calendar[n] : n \in 1 .. MaxEntries }

\* data['daily'] with the given 'time'; the value at index i tells i
DailyOf(time, cut) ==
    LET n == IF Len(time) > cut THEN Len(time) - cut ELSE 0
    IN  [time               |-> time,
         temperature_2m_max |-> [i \in 1 .. Len(time) |-> 30 + i],
         temperature_2m_min |-> [i \in 1 .. Len(time) |-> 20 + i],
         rain_sum           |-> [i \in 1 .. n |-> i],
         sunshine_duration  |-> [i \in 1 .. n |-> 3600 * i]]

DailyResponses ==
    { DailyOf(time, cut) :
         time \in UNION { [1 .. n -> TimeEntries] : n \in 0 .. MaxEntries },
         cut \in {0, 1} }

InitFetch ==
    /\ response \in { [of |-> "archive", daily |-> d] : d \in DailyResponses }
    /\ returned = NoReturn
    /\ missing = 0
    /\ prev = NoPrev
    /\ store = EmptyTable
    /\ pc = "idle"
    /\ call = NoCall
    /\ years = <<>>
    /\ yearIdx = 0
    /\ trace = <<>>
    /\ result = <<>>
    /\ atCall = NoHistory
    /\ log = <<>>
    /\ upserted = NoCounts
    /\ writers = NoWriters
    /\ applied = <<>>
    /\ main_table = <<>>

\* what a fetcher returns once data['daily'] is there: processed_data, or
\* None from the except clause
Reshape(by, daily_data, coordinates) ==
    LET processed == ProcessDaily(daily_data, coordinates)
    IN  [by   |-> by,
         none |-> processed.raised,
         data |-> IF processed.raised THEN <<>> ELSE processed.processed_data]

\* fetch_weather_data reshapes the answer
ReshapeRange ==
    /\ returned = NoReturn
    /\ returned' = Reshape("fetch_weather_data", response.daily,
                           GetCityCoordinates("Mumbai", <<"hit">>))
    /\ UNCHANGED <<store, pc, call, years, yearIdx, trace, result, atCall, log,
                   upserted, missing, prev, response,
                 writers, applied, main_table>>

\* fetch_weather_data_for_year reshapes the answer
ReshapeYear ==
    /\ returned = NoReturn
    /\ returned' = Reshape("fetch_weather_data_for_year", response.daily,
                           GetCityCoordinates("Mumbai", <<"hit">>))
    /\ UNCHANGED <<store, pc, call, years, yearIdx, trace, result, atCall, log,
                   upserted, missing, prev, response,
                 writers, applied, main_table>>

NextFetch == ReshapeRange \/ ReshapeYear

SpecFetch == InitFetch /\ [][NextFetch]_vars

(***************************************************************************)
(* One ensure step on its own: ensure_date_range_data or ensure_year_data  *)
(* applied once to a table, with the answers of the two services recorded  *)
(* in response.  The table is empty or holds every year short of its last  *)
(* MaxGap days, so that neither a year nor a range at the end of a year is *)
(* adequate and the step goes on to fetch.                                 *)
(***************************************************************************)
ArchiveKinds == {"error", "refused", "daily", "short"}

InitEnsure ==
    /\ missing = MaxGap
    /\ \/ store = EmptyTable
       \/ store = FetchedUpTo(missing, LastYear)
    /\ call \in { [city_name |-> q[1], start_date |-> q[2][1], end_date |-> q[2][2]] : q \in Queries }
    /\ years \in { <<y>> : y \in Years }
    /\ response \in { [of |-> "network", geo |-> geo, arch |-> arch] :
                         geo \in GeoAnswers(call.city_name), arch \in ArchiveKinds }
    /\ returned = NoReturn
    /\ prev = NoPrev
    /\ pc = "idle"
    /\ yearIdx = 1
    /\ trace = <<>>
    /\ result = <<>>
    /\ atCall = NoHistory
    /\ log = <<>>
    /\ upserted = NoCounts
    /\ writers = NoWriters
    /\ applied = <<>>
    /\ main_table = <<>>

\* ensure_date_range_data(city_name, start_date, end_date) runs
EnsureRangeOnce ==
    /\ returned = NoReturn
    /\ <<response.geo, response.arch>>
          \in NetworkAnswers(call.city_name, call.start_date, call.end_date)
    /\ LET r == EnsureDateRangeData(store, call.city_name, call.start_date,
                                    call.end_date, response.geo, response.arch, missing)
       IN  /\ store' = r.table
           /\ returned' = [by |-> "ensure_date_range_data", ensured |-> r.ensured,
                           events |-> r.events]
    /\ UNCHANGED <<pc, call, years, yearIdx, trace, result, atCall, log,
                   upserted, missing, prev, response,
                 writers, applied, main_table>>

\* ensure_year_data(city_name, year) runs
EnsureYearOnce ==
    /\ returned = NoReturn
    /\ <<response.geo, response.arch>>
          \in NetworkAnswers(call.city_name, <<years[yearIdx], 1, 1>>, <<years[yearIdx], 12, 31>>)
    /\ LET r == EnsureYearData(store, call.city_name, years[yearIdx],
                               response.geo, response.arch, missing)
       IN  /\ store' = r.table
           /\ returned' = [by |-> "ensure_year_data", ensured |-> r.ensured,
                           events |-> r.events]
    /\ UNCHANGED <<pc, call, years, yearIdx, trace, result, atCall, log,
                   upserted, missing, prev, response,
                 writers, applied, main_table>>

NextEnsure == EnsureRangeOnce \/ EnsureYearOnce

SpecEnsure == InitEnsure /\ [][NextEnsure]_vars

(***************************************************************************)
(* The resolver on its own, under every answer of the geocoder to each of  *)
(* the four spellings: a result list, an empty list, a failed request.     *)
(***************************************************************************)
Spellings == 4

GeocoderAnswers == [1 .. Spellings -> {"hit", "empty", "error"}]

InitResolve ==
    /\ call \in { [city_name |-> c, start_date |-> <<0, 0, 0>>, end_date |-> <<0, 0, 0>>] :
                     c \in { n \in PlaceNames : GeoKnows(n) } }
    /\ response \in { [of |-> "geocoder", geo |-> geo] : geo \in GeocoderAnswers }
    /\ returned = NoReturn
    /\ missing = 0
    /\ prev = NoPrev
    /\ store = EmptyTable
    /\ pc = "idle"
    /\ years = <<>>
    /\ yearIdx = 0
    /\ trace = <<>>
    /\ result = <<>>
    /\ atCall = NoHistory
    /\ log = <<>>
    /\ upserted = NoCounts
    /\ writers = NoWriters
    /\ applied = <<>>
    /\ main_table = <<>>

\* get_city_coordinates(city_name) runs
Resolve ==
    /\ returned = NoReturn
    /\ returned' = [by |-> "get_city_coordinates",
                    coordinates |-> GetCityCoordinates(call.city_name, response.geo)]
    /\ UNCHANGED <<store, pc, call, years, yearIdx, trace, result, atCall, log,
                   upserted, missing, prev, response,
                 writers, applied, main_table>>

NextResolve == Resolve

SpecResolve == InitResolve /\ [][NextResolve]_vars

(***************************************************************************)
(* One request, or one direct upsert, with a database that may fail: the   *)
(* final read may find no connection, and the store may reject one record  *)
(* of a batch.  The table is empty or holds every day of every year.       *)
(***************************************************************************)
InitFaulty ==
    /\ missing = 0
    /\ \/ store = EmptyTable
       \/ store = FetchedUpTo(missing, LastYear)
    /\ pc = "idle"
    /\ call = NoCall
    /\ years = <<>>
    /\ yearIdx = 0
    /\ trace = <<>>
    /\ result = <<>>
    /\ atCall = NoHistory
    /\ log = <<>>
    /\ upserted = NoCounts
    /\ prev = NoPrev
    /\ response = NoResponse
    /\ returned = NoReturn
    /\ writers = NoWriters
    /\ applied = <<>>
    /\ main_table = <<>>

\* check_date_range_coverage when create_connection returns None or the
\* query raises: lines 172-174 and 200-202 return False
CheckDateRangeCoverageFailed(table, city_name, start_date, end_date) == FALSE

\* check_year_completeness when create_connection returns None or the query
\* raises: lines 142-144 and 163-165 return False
CheckYearCompletenessFailed(table, city_name, year) == FALSE

\* ensure_date_range_data when its check cannot reach the table
EnsureDateRangeDataUnchecked(table, city_name, start_date, end_date, geo, arch, gap) ==
    LET adequate == CheckDateRangeCoverageFailed(table, city_name, start_date, end_date)
    IN  Ensured("store_range", table, adequate,
                Event("check_range", start_date, end_date, adequate, 0),
                FetchWeatherData(city_name, start_date, end_date, geo, arch, gap))

\* ensure_year_data when its check cannot reach the table
EnsureYearDataUnchecked(table, city_name, year, geo, arch, gap) ==
    LET complete == CheckYearCompletenessFailed(table, city_name, year)
    IN  Ensured("store_year", table, complete, YearChecked(year, complete),
                FetchWeatherDataForYear(city_name, year, geo, arch, gap))

\* lines 537-538 when the range check cannot reach the table
RangeStepUnchecked ==
    /\ pc = "range"
    /\ \E na \in NetworkAnswers(call.city_name, call.start_date, call.end_date) :
          LET r == EnsureDateRangeDataUnchecked(store, call.city_name, call.start_date,
                                                call.end_date, na[1], na[2], missing)
          IN  /\ store' = r.table
              /\ trace' = trace \o r.events
    /\ years' = GetYearRangeFromDateRange(call.start_date, call.end_date)
    /\ yearIdx' = 1
    /\ pc' = "years"
    /\ UNCHANGED <<call, result, atCall, log, upserted, missing, prev,
                   response, returned, writers, applied, main_table>>

\* lines 544-546 when the year check cannot reach the table
YearStepUnchecked ==
    /\ pc = "years"
    /\ yearIdx <= Len(years)
    /\ \E na \in NetworkAnswers(call.city_name, <<years[yearIdx], 1, 1>>,
                                 <<years[yearIdx], 12, 31>>) :
          LET r == EnsureYearDataUnchecked(store, call.city_name, years[yearIdx],
                                           na[1], na[2], missing)
          IN  /\ store' = r.table
              /\ trace' = trace \o r.events
              /\ yearIdx' = YearLoopNext(yearIdx, r.ensured)
    /\ UNCHANGED <<pc, call, years, result, atCall, log, upserted, missing, prev,
                   response, returned, writers, applied, main_table>>

\* lines 548-556 when get_city_data fails: data is [], and [] is returned
ReadStepFailed ==
    /\ pc = "years"
    /\ yearIdx > Len(years)
    /\ LET data == GetCityDataFailed(store, call.city_name, call.start_date, call.end_date)
       IN  result' = IF data # <<>> THEN data ELSE <<>>
    /\ trace' = Append(trace, Event("read", call.start_date, call.end_date, FALSE, 0))
    /\ pc' = "done"
    /\ UNCHANGED <<store, call, years, yearIdx, atCall, log, upserted, missing, prev,
                   response, returned,
                 writers, applied, main_table>>

\* store_weather_data(weather_data) called on its own, the store rejecting
\* record number rejected
UpsertRejected(weather_data, rejected) ==
    /\ pc = "idle"
    /\ log = <<>>
    /\ rejected \in 1 .. Len(weather_data)
    /\ LET r == StoreWeatherDataRejected(store, weather_data, TRUE, rejected)
       IN  /\ store' = r.table
           /\ upserted' = [inserted_count |-> r.inserted_count,
                           updated_count  |-> r.updated_count,
                           skipped_count  |-> r.skipped_count,
                           success        |-> r.success]
    /\ response' = [of |-> "database", rejected |-> rejected]
    /\ log' = Append(log, [op |-> "upsert", batch |-> weather_data])
    /\ UNCHANGED <<pc, call, years, yearIdx, trace, result, atCall, missing, prev,
                   returned,
                 writers, applied, main_table>>

NextFaulty ==
    \/ \E q \in Queries : CallFirst(q[1], q[2][1], q[2][2])
    \/ RangeStep
    \/ YearStep
    \/ RangeStepUnchecked
    \/ YearStepUnchecked
    \/ ReadStep
    \/ ReadStepFailed
    \/ Return
    \/ \E weather_data \in UpsertBatches, rejected \in 1 .. 2 :
          UpsertRejected(weather_data, rejected)

SpecFaulty == InitFaulty /\ [][NextFaulty]_vars

(***************************************************************************)
(* One request of get_or_fetch_city_data whose start or end is not a date  *)
(* of the calendar, as a caller other than api_weather_data may make it.   *)
(***************************************************************************)
\* '2023-13-45'
NoDate == <<BaseYear, 13, 45>>

MalformedQueries ==
    { <<city_name, range>> :
         city_name \in PlaceNames,
         range \in { <<NoDate, <<BaseYear, 12, 31>> >>, << <<BaseYear, 12, 7>>, NoDate>> } }

InitMalformed ==
    /\ missing = 0
    /\ \/ store = EmptyTable
       \/ store = FetchedUpTo(missing, LastYear)
    /\ pc = "idle"
    /\ call = NoCall
    /\ years = <<>>
    /\ yearIdx = 0
    /\ trace = <<>>
    /\ result = <<>>
    /\ atCall = NoHistory
    /\ log = <<>>
    /\ upserted = NoCounts
    /\ prev = NoPrev
    /\ response = NoResponse
    /\ returned = NoReturn
    /\ writers = NoWriters
    /\ applied = <<>>
    /\ main_table = <<>>

\* lines 548-556 for bounds of which one is no date
ReadStepCompared ==
    /\ pc = "years"
    /\ yearIdx > Len(years)
    /\ \E rejected \in BOOLEAN :
          LET data == GetCityDataCompared(store, call.city_name, call.start_date,
                                          call.end_date, rejected)
          IN  /\ result' = IF data # <<>> THEN data ELSE <<>>
              /\ trace' = Append(trace, Event("read", call.start_date, call.end_date,
                                              ~rejected, Len(data)))
    /\ pc' = "done"
    /\ UNCHANGED <<store, call, years, yearIdx, atCall, log, upserted, missing, prev,
                   response, returned,
                 writers, applied, main_table>>

NextMalformed ==
    \/ \E q \in MalformedQueries : CallFirst(q[1], q[2][1], q[2][2])
    \/ RangeStep
    \/ YearStep
    \/ ReadStepCompared
    \/ Return

SpecMalformed == InitMalformed /\ [][NextMalformed]_vars

(***************************************************************************)
(* A table shared by two cities: direct upserts for either city, purges,   *)
(* and requests for the alias, from the empty table, the archive complete. *)
(***************************************************************************)
\* batches for the two cities: one record, two records of one city with
\* different countries, one record of each city
CityBatches ==
    { << Record(city, dt, 0) >> : city \in {"Mumbai", "Bombay"}, dt \in UpsertDates }
    \cup { << Record("Mumbai", <<BaseYear, 12, 26>>, MaxRevision),
              Record("Mumbai", <<BaseYear, 12, 27>>, 0) >>,
           << Record("Mumbai", <<BaseYear, 12, 26>>, 0),
              Record("Bombay", <<BaseYear, 12, 26>>, 0) >>,
           << Record("Mumbai", <<BaseYear, 12, 27>>, 0),
              Record("Mumbai", <<BaseYear, 12, 27>>, MaxRevision) >> }

InitCities ==
    /\ missing = 0
    /\ store = EmptyTable
    /\ pc = "idle"
    /\ call = NoCall
    /\ years = <<>>
    /\ yearIdx = 0
    /\ trace = <<>>
    /\ result = <<>>
    /\ atCall = NoHistory
    /\ log = <<>>
    /\ upserted = NoCounts
    /\ prev = NoPrev
    /\ response = NoResponse
    /\ returned = NoReturn
    /\ writers = NoWriters
    /\ applied = <<>>
    /\ main_table = <<>>

\* clear_cache(city), the city recorded
PurgeCity(city) ==
    /\ pc = "idle"
    /\ Len(log) < MaxOps
    /\ store' = DeleteCity(store, city)
    /\ log' = Append(log, [op |-> "purge", batch |-> <<>>])
    /\ response' = [of |-> "purge", city |-> city]
    /\ UNCHANGED <<pc, call, years, yearIdx, trace, result, atCall, upserted, missing, prev,
                   returned,
                 writers, applied, main_table>>

\* the place names in the order of the city column's collation
CityOrder == << "Atlantis", "Bombay", "Mumbai" >>

\* the position of a city in ORDER BY city
CityRank(city) == CHOOSE i \in 1 .. Len(CityOrder) : CityOrder[i] = city

\* SELECT DISTINCT city, country FROM weather_data: the set of pairs
CityCountryPairs(table) ==
    UNION { { [city |-> table[c][n][i].city, country |-> table[c][n][i].country] :
                 i \in 1 .. Len(table[c][n]) } :
            c \in PlaceNames, n \in 1 .. TotalDays }

\* the ways of listing the pairs, each once
Listings(pairs) ==
    { cities \in [1 .. Cardinality(pairs) -> pairs] :
         \A i, j \in 1 .. Cardinality(pairs) : i # j => cities[i] # cities[j] }

\* the query without its ORDER BY: the pairs in any order
GetAvailableCitiesUnordered(table) == Listings(CityCountryPairs(table))

\* get_available_cities() with the table reachable: the lists fetchall() may
\* return, the distinct pairs ordered by city (the order of two pairs of one
\* city is left to the server)
GetAvailableCities(table) ==
    { cities \in Listings(CityCountryPairs(table)) :
         \A i, j \in 1 .. Len(cities) :
            i < j => CityRank(cities[i].city) <= CityRank(cities[j].city) }

\* get_available_cities(), its list recorded
ListCities ==
    /\ pc = "idle"
    /\ Len(log) < MaxOps
    /\ \E cities \in GetAvailableCities(store) :
          returned' = [by |-> "get_available_cities", cities |-> cities]
    /\ log' = Append(log, [op |-> "list", batch |-> <<>>])
    /\ UNCHANGED <<store, pc, call, years, yearIdx, trace, result, atCall, upserted,
                   missing, prev, response, writers, applied, main_table>>

NextCities ==
    \/ \E weather_data \in CityBatches : Upsert(weather_data)
    \/ \E city \in PlaceNames : PurgeCity(city)
    \/ ListCities
    \/ Call("Bombay", YearEnd(BaseYear)[1], YearEnd(BaseYear)[2])
    \/ RangeStep
    \/ YearStep
    \/ ReadStep
    \/ Return

SpecCities == InitCities /\ [][NextCities]_vars

(***************************************************************************)
(* Two store_weather_data calls at once.  Each call opens its own          *)
(* connection (autocommit off), executes one INSERT ... ON DUPLICATE KEY   *)
(* UPDATE per record and commits after the last one.  InnoDB executes each *)
(* statement as a whole and keeps the row of a written key locked for the  *)
(* writing transaction until it commits or rolls back; a statement on a    *)
(* key another transaction has locked waits, and the wait ends either with *)
(* the lock or with an error (1205 lock wait timeout, 1213 deadlock), which*)
(* store_weather_data raises again, rolls back and answers with False.     *)
(* store holds the rows as the writing transactions see them; a rollback   *)
(* puts the rows of the locked keys back.                                  *)
(***************************************************************************)
WriterIds == {1, 2}

\* the batches of writer w: its own values for one or both days, in either
\* order, or the same day twice
WriterBatches(w) ==
    { << Record("Mumbai", <<BaseYear, 12, 26>>, w) >>,
      << Record("Mumbai", <<BaseYear, 12, 26>>, w), Record("Mumbai", <<BaseYear, 12, 27>>, w) >>,
      << Record("Mumbai", <<BaseYear, 12, 27>>, w), Record("Mumbai", <<BaseYear, 12, 26>>, w) >>,
      << Record("Mumbai", <<BaseYear, 12, 26>>, w), Record("Mumbai", <<BaseYear, 12, 26>>, w) >> }

\* a call not yet made: position in the batch, rows to put back on rollback
\* (by day number; its domain is the set of keys the transaction has locked)
\* and the three counters
NoWriter ==
    [state |-> "idle", weather_data |-> <<>>, next |-> 1, undo |-> <<>>,
     inserted_count |-> 0, updated_count |-> 0, skipped_count |-> 0, success |-> FALSE]

\* the key at day number at is locked by a transaction other than w's
LockedByOther(w, at) ==
    \E o \in WriterIds \ {w} : writers[o].state = "running" /\ at \in DOMAIN writers[o].undo

\* the rows to put back, with the rows of day number at as they were before
\* the transaction's first statement on that key
Remember(undo, at, rows) ==
    [n \in DOMAIN undo \cup {at} |-> IF n \in DOMAIN undo THEN undo[n] ELSE rows]

\* conn.rollback(): the rows of the keys the transaction wrote are put back
RolledBack(table, city, undo) ==
    [table EXCEPT ![city] =
        [n \in 1 .. TotalDays |-> IF n \in DOMAIN undo THEN undo[n] ELSE table[city][n]]]

InitWriters ==
    /\ missing = 0
    /\ \/ store = EmptyTable
       \/ store = StoreWeatherData(EmptyTable, << Record("Mumbai", <<BaseYear, 12, 26>>, 0) >>,
                                   TRUE).table
    /\ pc = "idle"
    /\ call = NoCall
    /\ years = <<>>
    /\ yearIdx = 0
    /\ trace = <<>>
    /\ result = <<>>
    /\ atCall = NoHistory
    /\ log = <<>>
    /\ upserted = NoCounts
    /\ prev = NoPrev
    /\ response = NoResponse
    /\ returned = NoReturn
    /\ writers = [w \in WriterIds |-> NoWriter]
    /\ applied = <<>>
    /\ main_table = <<>>

\* store_weather_data(weather_data) is called: lines 383-430
BeginStore(w, weather_data) ==
    /\ writers[w].state = "idle"
    /\ writers' = [writers EXCEPT ![w] = [NoWriter EXCEPT !.state = "running",
                                                          !.weather_data = weather_data]]
    /\ UNCHANGED <<store, pc, call, years, yearIdx, trace, result, atCall, log, upserted,
                   missing, prev, response, returned, applied, main_table>>

\* one iteration of the loop, lines 431-458: the statement runs once the key
\* is not locked by the other transaction
ExecuteStatement(w) ==
    /\ writers[w].state = "running"
    /\ writers[w].next <= Len(writers[w].weather_data)
    /\ LET record == writers[w].weather_data[writers[w].next]
           at     == ToOrdinal(record.date)
           r      == StoreOne([table          |-> store,
                               inserted_count |-> writers[w].inserted_count,
                               updated_count  |-> writers[w].updated_count,
                               skipped_count  |-> writers[w].skipped_count],
                              record, TRUE)
       IN  /\ ~LockedByOther(w, at)
           /\ store' = r.table
           /\ writers' = [writers EXCEPT ![w] =
                  [@ EXCEPT !.next = @ + 1,
                            !.undo = Remember(@, at, store[record.city][at]),
                            !.inserted_count = r.inserted_count,
                            !.updated_count  = r.updated_count,
                            !.skipped_count  = r.skipped_count]]
           /\ applied' = Append(applied, [writer |-> w, at |-> at])
    /\ UNCHANGED <<pc, call, years, yearIdx, trace, result, atCall, log, upserted,
                   missing, prev, response, returned, main_table>>

\* conn.commit() and the return, lines 468-470: the locks are released
CommitStore(w) ==
    /\ writers[w].state = "running"
    /\ writers[w].next > Len(writers[w].weather_data)
    /\ writers' = [writers EXCEPT ![w] =
           [@ EXCEPT !.state = "committed",
                     !.undo = <<>>,
                     !.success = (writers[w].inserted_count > 0
                                    \/ writers[w].updated_count > 0)]]
    /\ UNCHANGED <<store, pc, call, years, yearIdx, trace, result, atCall, log, upserted,
                   missing, prev, response, returned, applied, main_table>>

\* the wait for a locked key ends with an error other than 1062: lines
\* 464-466 raise it again, lines 472-475 roll back and return False
LockWaitFails(w) ==
    /\ writers[w].state = "running"
    /\ writers[w].next <= Len(writers[w].weather_data)
    /\ LET record == writers[w].weather_data[writers[w].next]
       IN  /\ LockedByOther(w, ToOrdinal(record.date))
           /\ store' = RolledBack(store, record.city, writers[w].undo)
    /\ writers' = [writers EXCEPT ![w] =
           [@ EXCEPT !.state = "rolled_back", !.undo = <<>>, !.success = FALSE]]
    /\ applied' = SelectSeq(applied, LAMBDA a : a.writer # w)
    /\ UNCHANGED <<pc, call, years, yearIdx, trace, result, atCall, log, upserted,
                   missing, prev, response, returned, main_table>>

NextWriters ==
    \/ \E w \in WriterIds : \E weather_data \in WriterBatches(w) : BeginStore(w, weather_data)
    \/ \E w \in WriterIds : ExecuteStatement(w)
    \/ \E w \in WriterIds : CommitStore(w)
    \/ \E w \in WriterIds : LockWaitFails(w)

SpecWriters == InitWriters /\ [][NextWriters]_vars

(***************************************************************************)
(* The collector of fetching_data keeps whole years in a table of its own, *)
(* created by create_main_table: main_table is the sequence of its rows in *)
(* the order of their id.  Its two functions are applied to tables holding *)
(* one year of one city up to a few days before its end.                   *)
(***************************************************************************)
\* the most days absent from the end of the stored year
MaxAbsent == 2

\* the years of the claim: a century year that is not a leap year, one that
\* is, a common year and a leap year
CollectedYears == {1900, 2000, BaseYear, BaseYear + 1}

\* the archive's daily values the collector also stores
ArchiveApparentMax(dt) == 27 + (dt[3] % 5)
ArchiveApparentMin(dt) == 13 + (dt[3] % 5)
ArchiveSnowfallSum(dt) == 0

\* one row of the DataFrame for date dt, its values moved by rev
FrameRow(dt, rev) ==
    [time                     |-> dt,
     temperature_2m_max       |-> ArchiveTemperatureMax(dt) + rev,
     temperature_2m_min       |-> ArchiveTemperatureMin(dt) + 2 * rev,
     apparent_temperature_max |-> ArchiveApparentMax(dt) + rev,
     apparent_temperature_min |-> ArchiveApparentMin(dt) + 2 * rev,
     rain_sum                 |-> ArchiveRainSum(dt) + 3 * rev,
     snowfall_sum             |-> ArchiveSnowfallSum(dt) + rev,
     sunshine_duration        |-> ArchiveSunshineDuration(dt) + 4 * rev]

\* the tuple cursor.execute passes for one row of the DataFrame
MainRow(row, city_name, country, year) ==
    [city              |-> city_name,
     country           |-> country,
     date              |-> row.time,
     temperature_max   |-> row.temperature_2m_max,
     temperature_min   |-> row.temperature_2m_min,
     apparent_temp_max |-> row.apparent_temperature_max,
     apparent_temp_min |-> row.apparent_temperature_min,
     rain_sum          |-> row.rain_sum,
     snowfall_sum      |-> row.snowfall_sum,
     sunshine_duration |-> row.sunshine_duration,
     year              |-> year]

\* UNIQUE KEY uniq_city_date (city, date) of create_main_table: the rows a
\* new row conflicts with
MainUniqCityDate(table, new) ==
    { i \in 1 .. Len(table) : table[i].city = new.city /\ table[i].date = new.date }

\* a conflicting row takes the values of the new one, and the statement
\* reports two affected rows
InsertOrUpdate(table, new) ==
    LET dup == MainUniqCityDate(table, new)
    IN  IF dup = {}
        THEN [table |-> Append(table, new), rowcount |-> 1]
        ELSE [table |-> [i \in 1 .. Len(table) |-> IF i \in dup THEN new ELSE table[i]],
              rowcount |-> 2]

\* one INSERT IGNORE: a conflicting new row is dropped
InsertIgnore(table, new) ==
    IF MainUniqCityDate(table, new) = {}
    THEN [table |-> Append(table, new), rowcount |-> 1]
    ELSE [table |-> table, rowcount |-> 0]

\* the loop of insert_dataframe_to_db from row i of df on
RECURSIVE InsertRows(_, _, _, _, _, _)
InsertRows(acc, df, city_name, country, year, i) ==
    IF i > Len(df) THEN acc
    ELSE LET r == InsertIgnore(acc.table, MainRow(df[i], city_name, country, year))
         IN  InsertRows([table          |-> r.table,
                         inserted_count |-> acc.inserted_count
                                              + (IF r.rowcount > 0 THEN 1 ELSE 0)],
                        df, city_name, country, year, i + 1)

\* insert_dataframe_to_db(df, city_name, country, year): the table after the
\* commit and the count it prints
InsertDataframeToDb(table, df, city_name, country, year) ==
    InsertRows([table |-> table, inserted_count |-> 0], df, city_name, country, year, 1)

\* SELECT COUNT(DISTINCT date) ... WHERE city = %s AND year = %s
UniqueDays(table, city_name, year) ==
    Cardinality({ table[i].date :
                     i \in { k \in 1 .. Len(table) :
                                table[k].city = city_name /\ table[k].year = year } })

\* every fourth year a leap year
HasCompleteYearDataJulian(table, city_name, year) ==
    LET is_leap_year  == (year % 4 = 0)
        expected_days == IF is_leap_year THEN 366 ELSE 365
        actual_days   == UniqueDays(table, city_name, year)
    IN  actual_days = expected_days

\* has_complete_year_data(conn, city_name, year)
HasCompleteYearData(table, city_name, year) ==
    LET is_leap_year  == (year % 4 = 0 /\ (year % 100 # 0 \/ year % 400 = 0))
        expected_days == IF is_leap_year THEN 366 ELSE 365
        actual_days   == UniqueDays(table, city_name, year)
    IN  actual_days = expected_days

\* the table after the collector stored the days of year for Mumbai up to
\* absent days before its end
CollectedYear(year, absent) ==
    [k \in 1 .. (DaysInYear(year) - absent) |->
        MainRow(FrameRow(DayOfYear(year, k), 0), "Mumbai", "India", year)]

\* DataFrames of the archive's answer for year: its last day, its last two
\* days, and its last day twice with different values
DataFrames(year) ==
    { << FrameRow(<<year, 12, 31>>, 1) >>,
      << FrameRow(<<year, 12, 30>>, 1), FrameRow(<<year, 12, 31>>, 1) >>,
      << FrameRow(<<year, 12, 31>>, 0), FrameRow(<<year, 12, 31>>, 1) >> }

InitCollector ==
    /\ store = EmptyTable
    /\ missing = 0
    /\ pc = "idle"
    /\ call = NoCall
    /\ years = <<>>
    /\ yearIdx = 0
    /\ trace = <<>>
    /\ result = <<>>
    /\ atCall = NoHistory
    /\ log = <<>>
    /\ upserted = NoCounts
    /\ prev = NoPrev
    /\ response = NoResponse
    /\ returned = NoReturn
    /\ writers = NoWriters
    /\ applied = <<>>
    /\ main_table \in {<<>>} \cup { CollectedYear(year, absent) :
                                      year \in CollectedYears, absent \in 0 .. MaxAbsent }

\* has_complete_year_data is called and its answer recorded
CheckComplete(city_name, year) ==
    /\ Len(log) < MaxOps
    /\ log' = Append(log, [op |-> "check", batch |-> <<>>])
    /\ response' = [of |-> "has_complete_year_data", city_name |-> city_name, year |-> year]
    /\ returned' = [by |-> "has_complete_year_data",
                    complete |-> HasCompleteYearData(main_table, city_name, year)]
    /\ UNCHANGED <<store, pc, call, years, yearIdx, trace, result, atCall, upserted,
                   missing, prev, writers, applied, main_table>>

\* insert_dataframe_to_db is called and the count it prints recorded
InsertDataframe(df, city_name, country, year) ==
    /\ Len(log) < MaxOps
    /\ log' = Append(log, [op |-> "insert", batch |-> <<>>])
    /\ LET r == InsertDataframeToDb(main_table, df, city_name, country, year)
       IN  /\ main_table' = r.table
           /\ returned' = [by |-> "insert_dataframe_to_db",
                           inserted_count |-> r.inserted_count]
    /\ response' = [of |-> "insert_dataframe_to_db", df |-> df, city_name |-> city_name,
                    year |-> year]
    /\ UNCHANGED <<store, pc, call, years, yearIdx, trace, result, atCall, upserted,
                   missing, prev, writers, applied>>

NextCollector ==
    \/ \E city_name \in {"Mumbai", "Pune"}, year \in CollectedYears :
          CheckComplete(city_name, year)
    \/ \E year \in CollectedYears : \E df \in DataFrames(year) :
          InsertDataframe(df, "Mumbai", "IN", year)

SpecCollector == InitCollector /\ [][NextCollector]_vars

(***************************************************************************)
(* Properties.                                                             *)
(***************************************************************************)
\* every row of the table, whatever bucket it is kept in
StoredRows ==
    UNION { { store[c][n][i] : i \in 1 .. Len(store[c][n]) } :
            c \in PlaceNames, n \in 1 .. TotalDays }

\* the dates of the rows stored for city_name
StoredDates(city_name) ==
    UNION { { store[c][n][i].date :
                 i \in { k \in 1 .. Len(store[c][n]) : store[c][n][k].city = city_name } } :
            c \in PlaceNames, n \in 1 .. TotalDays }

\* a is an earlier day than b, field by field
Before(a, b) ==
    \/ a[1] < b[1]
    \/ a[1] = b[1] /\ a[2] < b[2]
    \/ a[1] = b[1] /\ a[2] = b[2] /\ a[3] < b[3]

\* the four measurements of a record or row
Measurements(r) ==
    <<r.temperature_max, r.temperature_min, r.rain_sum, r.sunshine_duration>>

\* the last operation begun
LastOp == log[Len(log)]

\* C1: for every city and date the table holds at most one row with that
\* city and date, in every state reachable by upserts, requests (with their
\* fetches and stores) and per-city purges.
OneRowPerCityDate ==
    \A c \in PlaceNames, n \in 1 .. TotalDays :
        /\ Len(store[c][n]) <= 1
        /\ \A i \in 1 .. Len(store[c][n]) :
              store[c][n][i].city = c /\ store[c][n][i].date = Calendar[n]

\* a request has stored rows and an upsert has then hit one of their keys
FetchedKeyUpsertedAgain ==
    /\ Len(log) = 2
    /\ log[1].op = "call"
    /\ log[2].op = "upsert"
    /\ upserted.updated_count > 0
    /\ \E c \in PlaceNames, n \in 1 .. TotalDays : Len(store[c][n]) = 1

\* ranges that contain dt: the day itself, its month, its year
RangesAround(dt) ==
    { <<dt, dt>>,
      << <<dt[1], dt[2], 1>>, <<dt[1], dt[2], DaysInMonth(dt[1], dt[2])>> >>,
      << <<dt[1], 1, 1>>, <<dt[1], 12, 31>> >> }

\* the last two operations are upserts of one record each, with the same
\* city and date and different measurements
TwoUpsertsOfOneKey ==
    /\ Len(log) >= 2
    /\ log[Len(log) - 1].op = "upsert" /\ Len(log[Len(log) - 1].batch) = 1
    /\ LastOp.op = "upsert" /\ Len(LastOp.batch) = 1
    /\ log[Len(log) - 1].batch[1].city = LastOp.batch[1].city
    /\ log[Len(log) - 1].batch[1].date = LastOp.batch[1].date
    /\ Measurements(log[Len(log) - 1].batch[1]) # Measurements(LastOp.batch[1])

\* C2: after upsert([r]) and then upsert([r']) with the same city and date
\* and different measurements, a read of any range containing the date
\* returns exactly one record for the date, carrying the measurements of r'.
LastWriteWins ==
    TwoUpsertsOfOneKey =>
        \A range \in RangesAround(LastOp.batch[1].date) :
            LET data == GetCityData(store, LastOp.batch[1].city, range[1], range[2])
                hits == { i \in 1 .. Len(data) : data[i].date = LastOp.batch[1].date }
            IN  /\ Cardinality(hits) = 1
                /\ \A i \in hits : Measurements(data[i]) = Measurements(LastOp.batch[1])

\* the two upserts have been made and the row carries the second one's values
SecondUpsertStored ==
    /\ TwoUpsertsOfOneKey
    /\ \E row \in StoredRows :
          /\ row.date = LastOp.batch[1].date
          /\ Measurements(row) = Measurements(LastOp.batch[1])
          /\ Measurements(row) # <<ArchiveTemperatureMax(row.date), ArchiveTemperatureMin(row.date),
                                   ArchiveRainSum(row.date), ArchiveSunshineDuration(row.date)>>

\* new differs from old in nothing but the four measurements
SameButMeasurements(old, new) ==
    [new EXCEPT !.temperature_max   = old.temperature_max,
                !.temperature_min   = old.temperature_min,
                !.rain_sum          = old.rain_sum,
                !.sunshine_duration = old.sunshine_duration] = old

\* the step is a direct upsert
IsUpsertStep ==
    /\ Len(log') = Len(log) + 1
    /\ log'[Len(log')].op = "upsert"

\* what an upsert step may change: rows whose key is in the batch, and of a
\* row that existed only its measurements
UpsertFrame ==
    LET batch == log'[Len(log')].batch
        keys  == { <<batch[i].city, batch[i].date>> : i \in 1 .. Len(batch) }
    IN  \A c \in PlaceNames, n \in 1 .. TotalDays :
            IF <<c, Calendar[n]>> \notin keys
            THEN store'[c][n] = store[c][n]
            ELSE store[c][n] # <<>> =>
                    /\ Len(store'[c][n]) = Len(store[c][n])
                    /\ \A i \in 1 .. Len(store[c][n]) :
                          /\ SameButMeasurements(store[c][n][i], store'[c][n][i])
                          /\ store'[c][n][i].city = store[c][n][i].city
                          /\ store'[c][n][i].date = store[c][n][i].date

YearCompleteFrom360 ==
    pc = "idle" =>
        LET dates == StoredDates(call.city_name)
        IN  \A i \in 1 .. Len(trace) :
                trace[i].ev = "check_year" =>
                    (trace[i].ok <=>
                        Cardinality({ dt \in dates : dt[1] = trace[i].start[1] }) >= 360)

\* a common year with 359 stored dates was found incomplete and a leap year
\* with 360 stored dates complete
Checked359And360 ==
    \E i, j \in 1 .. Len(trace) :
        /\ trace[i].ev = "check_year" /\ trace[j].ev = "check_year"
        /\ ~IsLeapYear(trace[i].start[1]) /\ IsLeapYear(trace[j].start[1])
        /\ Cardinality({ dt \in StoredDates(call.city_name) : dt[1] = trace[i].start[1] }) = 359
        /\ Cardinality({ dt \in StoredDates(call.city_name) : dt[1] = trace[j].start[1] }) = 360
        /\ ~trace[i].ok /\ trace[j].ok

\* those of the dates from start_date to end_date
Within(dates, start_date, end_date) ==
    { dt \in dates : ~Before(dt, start_date) /\ ~Before(end_date, dt) }

\* the calendar days from start_date to end_date
DaysWithin(start_date, end_date) ==
    { n \in 1 .. TotalDays :
         ~Before(Calendar[n], start_date) /\ ~Before(end_date, Calendar[n]) }

\* C5: check_date_range_coverage answers true exactly when the number of
\* days from start to end, both included, is positive and five times the
\* number of distinct stored dates of the city in the range is at least four
\* times that number; a start after the end gives false.
RangeCoveredFromFourFifths ==
    pc = "idle" =>
        LET dates == StoredDates(call.city_name)
        IN  \A i \in 1 .. Len(trace) :
                trace[i].ev = "check_range" =>
                    LET days   == Cardinality(DaysWithin(trace[i].start, trace[i].end))
                        stored == Cardinality(Within(dates, trace[i].start, trace[i].end))
                    IN  trace[i].ok <=> (days > 0 /\ 5 * stored >= 4 * days)

\* a range stored to exactly four fifths was found covered and a range
\* whose start is after its end was found uncovered
CheckedFourFifthsAndReversed ==
    \E i, j \in 1 .. Len(trace) :
        /\ trace[i].ev = "check_range" /\ trace[j].ev = "check_range"
        /\ 5 * Cardinality(Within(StoredDates(call.city_name), trace[i].start, trace[i].end))
             = 4 * Cardinality(DaysWithin(trace[i].start, trace[i].end))
        /\ Cardinality(DaysWithin(trace[i].start, trace[i].end)) > 0
        /\ trace[i].ok
        /\ Before(trace[j].end, trace[j].start)
        /\ ~trace[j].ok

\* the positions of the events of the given kinds in the trace
At(kinds) == { i \in 1 .. Len(trace) : trace[i].ev \in kinds }

\* the name rows of the requested city are stored under
StoredAs(city_name) == GeoEntry(city_name).name

\* C6: within one request the fetch of the exact range is attempted exactly
\* when the range was not covered as the request began; it is attempted at
\* most once, before every year check, and when it succeeds every record it
\* returned is stored before the first year check.
RangeFetchedOnceWhenUncovered ==
    pc \in {"years", "done"} =>
        /\ (At({"resolve_range"}) # {}) <=> ~atCall.range_ok
        /\ Cardinality(At({"resolve_range"})) <= 1
        /\ Cardinality(At({"fetch_range"})) <= 1
        /\ \A i \in At({"fetch_range"}) : At({"resolve_range"}) = {i - 1}
        /\ \A i \in At({"resolve_range", "fetch_range", "store_range"}),
              j \in At({"check_year"}) : i < j
        /\ \A i \in At({"fetch_range"}) :
              trace[i].ok =>
                 /\ At({"store_range"}) = {i + 1}
                 /\ trace[i + 1].n = trace[i].n
                 /\ trace[i].n = Cardinality({ n \in DaysWithin(call.start_date, call.end_date) :
                                                  Archived(missing, Calendar[n]) })
        /\ (yearIdx = 1 /\ pc = "years" /\ \E i \in At({"fetch_range"}) : trace[i].ok) =>
              \A n \in DaysWithin(call.start_date, call.end_date) :
                  Archived(missing, Calendar[n]) =>
                     \E row \in { store[StoredAs(call.city_name)][n][k] :
                                    k \in 1 .. Len(store[StoredAs(call.city_name)][n]) } :
                         /\ row.date = Calendar[n]
                         /\ Measurements(row) =
                               <<ArchiveTemperatureMax(row.date), ArchiveTemperatureMin(row.date),
                                 ArchiveRainSum(row.date), ArchiveSunshineDuration(row.date)>>

\* a request whose range was not covered fetched and stored it, and went on
\* to check a year
RangeStoredBeforeYearCheck ==
    /\ pc = "done"
    /\ ~atCall.range_ok
    /\ \E i \in At({"store_range"}), j \in At({"check_year"}) : i < j /\ trace[i].n > 0

\* the year checks of the trace, in order
YearChecks == SelectSeq(trace, LAMBDA e : e.ev = "check_year")

\* C7: within one request every calendar year from the start's year to the
\* end's year is checked exactly once, in ascending order; the fetch of a
\* whole year is attempted exactly when its check found the year incomplete,
\* and no year outside that interval is fetched.
YearsCheckedOnceAscending ==
    pc \in {"years", "done"} =>
        LET first == call.start_date[1]
            last  == call.end_date[1]
        IN  /\ pc = "done" => Len(YearChecks) = last - first + 1
            /\ pc = "years" => Len(YearChecks) = yearIdx - 1
            /\ \A k \in 1 .. Len(YearChecks) :
                  /\ YearChecks[k].start = <<first + k - 1, 1, 1>>
                  /\ YearChecks[k].end = <<first + k - 1, 12, 31>>
            /\ \A i \in At({"check_year"}) :
                  ~trace[i].ok <=> /\ i < Len(trace)
                                   /\ trace[i + 1].ev = "resolve_year"
                                   /\ trace[i + 1].start = trace[i].start
            /\ \A i \in At({"resolve_year", "fetch_year", "store_year"}) :
                  /\ trace[i].start[1] \in first .. last
                  /\ i > 1
                  /\ trace[i - 1].ev \in {"check_year", "resolve_year", "fetch_year"}
                  /\ trace[i - 1].start[1] = trace[i].start[1]
            /\ \A y \in first .. last :
                  Cardinality({ i \in At({"resolve_year"}) : trace[i].start[1] = y }) <= 1

\* a request over two years fetched the first, incomplete one and left the
\* second, complete one alone
OneYearFetchedOneSkipped ==
    /\ pc = "done"
    /\ Len(YearChecks) = 2
    /\ ~YearChecks[1].ok /\ YearChecks[2].ok
    /\ \E i \in At({"fetch_year"}) : trace[i].ok /\ trace[i].start = YearChecks[1].start
    /\ \A i \in At({"resolve_year"}) : trace[i].start # YearChecks[2].start

\* the events that report a failed resolver or archive call
Failures == { i \in At({"resolve_range", "fetch_range", "resolve_year", "fetch_year"}) :
                 ~trace[i].ok }

\* C8: a failed fetch of the range or of a year does not end the request:
\* every later year of the range is still checked and, if incomplete,
\* fetched, and the final read is made and its result returned.
FailedFetchDoesNotAbort ==
    pc = "done" =>
        /\ At({"read"}) = {Len(trace)}
        /\ trace[Len(trace)].start = call.start_date
        /\ trace[Len(trace)].end = call.end_date
        /\ Len(result) = trace[Len(trace)].n
        /\ \A i \in 1 .. Len(result) :
              \E row \in StoredRows : row.city = call.city_name /\ Projection(row) = result[i]
        /\ \A f \in Failures :
              \A y \in call.start_date[1] .. call.end_date[1] :
                  (trace[f].ev \in {"resolve_range", "fetch_range"} \/ y > trace[f].start[1]) =>
                      \E j \in At({"check_year"}) :
                          /\ j > f
                          /\ trace[j].start[1] = y
                          /\ ~trace[j].ok => trace[j + 1].ev = "resolve_year"

\* the fetch of the range and the fetch of the first year failed, the second
\* year was then fetched and stored, and the read returned records
LaterYearFetchedAfterFailures ==
    /\ pc = "done"
    /\ \E f \in Failures : trace[f].ev \in {"resolve_range", "fetch_range"}
    /\ \E f \in Failures, j \in At({"store_year"}) :
          /\ trace[f].ev \in {"resolve_year", "fetch_year"}
          /\ f < j
          /\ trace[j].start[1] > trace[f].start[1]
    /\ Len(result) > 0

\* C9: the list a request returns holds exactly the records stored for the
\* city with start <= date <= end when the final read is made, in strictly
\* ascending order of date, no date twice.
ReadReturnsStoredRange ==
    pc = "done" =>
        LET rows == { row \in StoredRows :
                         /\ row.city = call.city_name
                         /\ row.date = call.start_date \/ Before(call.start_date, row.date)
                         /\ row.date = call.end_date \/ Before(row.date, call.end_date) }
        IN  /\ { result[i] : i \in 1 .. Len(result) } = { Projection(row) : row \in rows }
            /\ Len(result) = Cardinality({ row.date : row \in rows })
            /\ \A i \in 1 .. Len(result) - 1 : Before(result[i].date, result[i + 1].date)

\* a request returned several records while the table holds rows of the
\* city outside the requested range
PartOfTheRowsReturned ==
    /\ pc = "done"
    /\ Len(result) > 1
    /\ \E dt \in StoredDates(call.city_name) :
          Before(dt, call.start_date) \/ Before(call.end_date, dt)

\* the request began with its range covered and every year of it complete
CoveredAtCall == pc # "idle" /\ atCall.range_ok /\ atCall.years_ok

\* C10: a request that begins with its range covered and every year of the
\* range complete makes no resolver call and no archive call, and leaves
\* the table unchanged.
CoveredRequestOnlyReads ==
    /\ [](CoveredAtCall =>
            At({"resolve_range", "fetch_range", "store_range",
                "resolve_year", "fetch_year", "store_year"}) = {})
    /\ [][CoveredAtCall => store' = store]_vars

\* a covered request has been served from the table alone
ServedFromStore ==
    /\ pc = "done"
    /\ atCall.range_ok /\ atCall.years_ok
    /\ Len(result) > 0
    /\ Len(trace) = Len(years) + 2

\* the positions of the resolver and archive calls in the trace
FetchCalls == At({"resolve_range", "fetch_range", "resolve_year", "fetch_year"})

\* the request being returned repeats the one served just before
SecondOfTwo ==
    /\ pc = "done"
    /\ prev.served
    /\ call.city_name = prev.city_name
    /\ call.start_date = prev.start_date
    /\ call.end_date = prev.end_date

\* C11 as stated: the second of two identical requests in succession makes
\* no fetch call and returns what the first returned.
SecondRequestNeverFetches ==
    SecondOfTwo => FetchCalls = {} /\ result = prev.result

\* C11, amended: the second of two identical requests in succession, if it
\* begins with its range covered and every year of the range complete, makes
\* no fetch call and returns what the first returned.
SecondRequestCoveredNeverFetches ==
    (SecondOfTwo /\ atCall.range_ok /\ atCall.years_ok) =>
        FetchCalls = {} /\ result = prev.result

\* the first request fetched and returned records, the second one found
\* everything covered and returned the same records
SameRecordsServedTwice ==
    /\ SecondOfTwo
    /\ atCall.range_ok /\ atCall.years_ok
    /\ Len(result) > 0
    /\ result = prev.result

\* the request being returned was made on the empty table, for a place the
\* resolver knows and a range of fewer than 360 days within one year, and
\* the resolver and the archive answered every call, the archive with a
\* record for each day asked
FullAnswersOnEmptyStore ==
    /\ pc = "done"
    /\ Len(log) = 1
    /\ GeoKnows(call.city_name)
    /\ call.start_date[1] = call.end_date[1]
    /\ ~Before(call.end_date, call.start_date)
    /\ Cardinality(DaysWithin(call.start_date, call.end_date)) < 360
    /\ missing = 0
    /\ \A i \in FetchCalls :
          /\ trace[i].ok
          /\ trace[i].ev \in {"fetch_range", "fetch_year"} =>
                trace[i].n = Cardinality(DaysWithin(trace[i].start, trace[i].end))

\* C12: on the empty table, for a resolvable place and a range of fewer than
\* 360 days within one year, with an archive that returns a record for every
\* day asked, a request makes exactly one range fetch, then exactly one
\* fetch of that year, and returns one record per date of the range,
\* ascending.
EmptyStoreRequestReturnsRange ==
    FullAnswersOnEmptyStore =>
        /\ Cardinality(At({"fetch_range"})) = 1
        /\ Cardinality(At({"fetch_year"})) = 1
        /\ \A i \in At({"fetch_range"}), j \in At({"fetch_year"}) :
              /\ i < j
              /\ trace[i].start = call.start_date /\ trace[i].end = call.end_date
              /\ trace[j].start[1] = call.start_date[1]
        /\ Len(result) = Cardinality(DaysWithin(call.start_date, call.end_date))
        /\ \A k \in 1 .. Len(result) :
              result[k].date = Calendar[ToOrdinal(call.start_date) + k - 1]

\* the resolver calls and the archive calls of the trace
ResolverCalls == At({"resolve_range", "resolve_year"})
ArchiveCalls == At({"fetch_range", "fetch_year"})

\* the kind of archive call that serves the same fetch as a resolver call
ArchiveCallOf(ev) == IF ev = "resolve_range" THEN "fetch_range" ELSE "fetch_year"

\* the number of calendar years from the start's year to the end's year
YearsSpanned ==
    IF call.end_date[1] >= call.start_date[1]
    THEN call.end_date[1] - call.start_date[1] + 1
    ELSE 0

\* resolver call i is followed at once by the archive call for the same range
\* or year, and no other archive call is made for it
FollowedByOneFetch(i) ==
    /\ i < Len(trace)
    /\ trace[i + 1].ev = ArchiveCallOf(trace[i].ev)
    /\ trace[i + 1].start = trace[i].start
    /\ trace[i + 1].end = trace[i].end
    /\ Cardinality({ j \in ArchiveCalls : /\ trace[j].ev = ArchiveCallOf(trace[i].ev)
                                          /\ trace[j].start = trace[i].start
                                          /\ trace[j].end = trace[i].end }) = 1

\* C13 as stated: a request makes at most 1 + (years of the range) resolver
\* calls, and every resolver call is followed by exactly one archive call for
\* the same range or year.
EveryResolveFollowedByFetch ==
    pc \in {"years", "done"} =>
        /\ Cardinality(ResolverCalls) <= 1 + YearsSpanned
        /\ \A i \in ResolverCalls : FollowedByOneFetch(i)

\* C13, amended: a request makes at most 1 + (years from the start's year to
\* the end's year) resolver calls; every resolver call that finds the place
\* is followed by exactly one archive call for the same range or year, a
\* resolver call that finds nothing is followed by none, and no archive call
\* is made without its resolver call.
SuccessfulResolveFollowedByFetch ==
    pc \in {"years", "done"} =>
        /\ Cardinality(ResolverCalls) <= 1 + YearsSpanned
        /\ \A i \in ResolverCalls :
              IF trace[i].ok
              THEN FollowedByOneFetch(i)
              ELSE i = Len(trace) \/ trace[i + 1].ev \notin {"fetch_range", "fetch_year"}
        /\ \A j \in ArchiveCalls :
              /\ j > 1
              /\ trace[j - 1].ev \in {"resolve_range", "resolve_year"}
              /\ trace[j - 1].ok
              /\ trace[j].ev = ArchiveCallOf(trace[j - 1].ev)

\* a request over two years made its three resolver calls, one of which
\* found nothing
MostResolverCallsOneFailed ==
    /\ pc = "done"
    /\ YearsSpanned = 2
    /\ Cardinality(ResolverCalls) = 3
    /\ \E i, j \in ResolverCalls : ~trace[i].ok /\ trace[j].ok

\* index of the first entry of the answer's 'time' that is dt
FirstIndex(dt) ==
    CHOOSE i \in 1 .. Len(response.daily.time) :
        /\ response.daily.time[i] = dt
        /\ \A j \in 1 .. i - 1 : response.daily.time[j] # dt

\* C14: the records a fetcher returns hold every date of the answer once,
\* each built from the first index at which the answer lists the date, in
\* the order of these first indices
FetcherKeepsFirstOfEachDate ==
    (returned # NoReturn /\ ~returned.none) =>
        LET daily_data == response.daily
            data       == returned.data
        IN  /\ \A k, l \in 1 .. Len(data) : data[k].date = data[l].date => k = l
            /\ { data[k].date : k \in 1 .. Len(data) }
                  = { daily_data.time[i] : i \in 1 .. Len(daily_data.time) }
            /\ \A k \in 1 .. Len(data) :
                  LET i == FirstIndex(data[k].date)
                  IN  /\ data[k].temperature_max = daily_data.temperature_2m_max[i]
                      /\ data[k].temperature_min = daily_data.temperature_2m_min[i]
                      /\ data[k].rain_sum = daily_data.rain_sum[i]
                      /\ data[k].sunshine_duration = daily_data.sunshine_duration[i]
            /\ \A k, l \in 1 .. Len(data) :
                  k < l => FirstIndex(data[k].date) < FirstIndex(data[l].date)

\* a fetcher has reshaped an answer that lists one date at the first and the
\* last index and another date between them
RepeatedDateReshaped ==
    /\ returned # NoReturn
    /\ ~returned.none
    /\ Len(response.daily.time) = MaxEntries
    /\ response.daily.time[1] = response.daily.time[MaxEntries]
    /\ response.daily.time[1] # response.daily.time[2]
    /\ Len(returned.data) = 2

\* an ensure step has made network calls
FetchStepOf(ret) ==
    /\ ret # NoReturn
    /\ \E i \in 1 .. Len(ret.events) : ret.events[i].ev \in {"resolve_range", "resolve_year"}

\* the answers in response make a fetch fail: the resolver finds nothing, the
\* request fails, the payload has no 'daily', or arrays are shorter than 'time'
FetchFails ==
    \/ ~GetCityCoordinates(call.city_name, response.geo).found
    \/ response.arch \in {"error", "refused", "short"}

\* C15: an ensure step whose fetch fails leaves the table as it was
FailedFetchUpsertsNothing ==
    [][ (FetchStepOf(returned') /\ FetchFails) => store' = store ]_vars

\* a year was asked of the archive for a table that holds rows, and the
\* answer's arrays were shorter than 'time'
ShortArraysOnStoredTable ==
    /\ FetchStepOf(returned)
    /\ returned.by = "ensure_year_data"
    /\ response.arch = "short"
    /\ GetCityCoordinates(call.city_name, response.geo).found
    /\ ~returned.ensured
    /\ store # EmptyTable
    /\ \E i \in 1 .. Len(returned.events) :
          returned.events[i].ev = "fetch_year" /\ ~returned.events[i].ok

\* the spellings to which the geocoder answers with a result list
Yielding == { i \in 1 .. Spellings : response.geo[i] = "hit" }

\* C16: the resolver returns the first entry of the first spelling that
\* yields a result, and returns nothing if and only if no spelling yields a
\* result: a spelling that fails or yields nothing does not keep a later
\* one from being tried
ResolverFindsFirstResult ==
    (returned # NoReturn /\ returned.by = "get_city_coordinates") =>
        /\ returned.coordinates.found <=> Yielding # {}
        /\ returned.coordinates.found =>
              /\ returned.coordinates.name = GeoEntry(call.city_name).name
              /\ returned.coordinates.latitude = GeoEntry(call.city_name).latitude
              /\ returned.coordinates.longitude = GeoEntry(call.city_name).longitude

\* the step is a direct upsert of which the store rejects one record
IsRejectedStep ==
    /\ Len(log') = Len(log) + 1
    /\ log'[Len(log')].op = "upsert"
    /\ response'.of = "database"

\* C17: when the store rejects one record of a batch with an error that is
\* not a conflict on (city, date), the records executed before it remain in
\* the table and the upsert reports their inserted and updated counts
RejectedRecordKeepsTheOthers ==
    [][ IsRejectedStep =>
          LET weather_data == log'[Len(log')].batch
              done == StoreLoop([table |-> store, inserted_count |-> 0,
                                 updated_count |-> 0, skipped_count |-> 0],
                                weather_data, 1, response'.rejected - 1, TRUE)
          IN  /\ store' = done.table
              /\ upserted'.inserted_count = done.inserted_count
              /\ upserted'.updated_count = done.updated_count ]_vars

\* C18: a failure of the database during the final read or an upsert shows
\* as an error, so a request returns the empty list only when the table
\* holds no row of the requested place and range
EmptyResultMeansNoRows ==
    (pc = "done" /\ result = <<>>) =>
        GetCityData(store, call.city_name, call.start_date, call.end_date) = <<>>

\* the request being served names a place the geocoder does not know, of
\* which the table holds no row
UnknownPlaceServed ==
    /\ pc # "idle"
    /\ ~GeoKnows(call.city_name)
    /\ \A n \in 1 .. TotalDays : store[call.city_name][n] = <<>>

\* C19: a request for a place that no spelling resolves, of which the table
\* holds nothing, returns the empty list without having asked the archive
\* or stored anything, and its steps leave the table as it was
UnknownPlaceReturnsEmpty ==
    /\ [](UnknownPlaceServed =>
            /\ At({"fetch_range", "fetch_year", "store_range", "store_year"}) = {}
            /\ result = <<>>)
    /\ [][UnknownPlaceServed => store' = store]_vars

\* the request for the unknown place has returned: the resolver was called
\* for the range and for the year, found nothing, and the read came last
UnknownPlaceRequestDone ==
    /\ pc = "done"
    /\ UnknownPlaceServed
    /\ At({"resolve_range"}) # {}
    /\ At({"resolve_year"}) # {}
    /\ \A i \in At({"resolve_range", "resolve_year"}) : ~trace[i].ok
    /\ trace[Len(trace)].ev = "read"
    /\ result = <<>>

\* the request being served has a start or an end that is no date
MalformedServed ==
    /\ pc # "idle"
    /\ ~(WellFormed(call.start_date) /\ WellFormed(call.end_date))

\* C20: a request whose start or end is not a well-formed date fails before
\* any query of the table, any call of the resolver and any call of the
\* archive, and returns no list
MalformedRequestFailsFirst ==
    MalformedServed => (trace = <<>> /\ pc # "done")

\* every row the step inserts or changes has as its city the name the
\* resolver returns for the requested place, and every row it inserts has
\* the resolver's country
StepStoresCanonicalName ==
    \A c \in PlaceNames, n \in 1 .. TotalDays :
        (store'[c][n] # store[c][n]) =>
            /\ c = GeoEntry(call.city_name).name
            /\ \A i \in 1 .. Len(store'[c][n]) :
                  /\ store'[c][n][i].city = GeoEntry(call.city_name).name
                  /\ (store[c][n] = <<>> =>
                        store'[c][n][i].country = GeoEntry(call.city_name).country)

IsPurgeStep ==
    /\ Len(log') = Len(log) + 1
    /\ log'[Len(log')].op = "purge"

\* every (city, date) that has a row has one after the step
KeysKept ==
    \A c \in PlaceNames, n \in 1 .. TotalDays : store[c][n] # <<>> => store'[c][n] # <<>>

\* the step removes every row of the purged city and leaves the rows of
\* every other city as they were
OnlyCityPurged ==
    /\ \A n \in 1 .. TotalDays : store'[response'.city][n] = <<>>
    /\ \A c \in PlaceNames \ {response'.city} : store'[c] = store[c]

\* C22: no step of an upsert or of a request removes a stored (city, date);
\* the only removal is the purge of a city, which removes every row of that
\* city and leaves the rows of every other city unchanged
OnlyPurgeRemoves ==
    [][IF IsPurgeStep THEN OnlyCityPurged ELSE KeysKept]_vars

\* rows of two cities were stored and one of the cities was then purged: the
\* other city keeps its rows
PurgedBesideAnotherCity ==
    /\ response # NoResponse
    /\ response.of = "purge"
    /\ Len(log) = 2
    /\ log[1].op = "upsert"
    /\ log[2].op = "purge"
    /\ \E i \in 1 .. Len(log[1].batch) : log[1].batch[i].city = response.city
    /\ \E c \in PlaceNames \ {response.city} : \E n \in 1 .. TotalDays : store[c][n] # <<>>
    /\ \A n \in 1 .. TotalDays : store[response.city][n] = <<>>

\* every writer has committed or rolled back
WritersDone == \A w \in WriterIds : writers[w].state \in {"committed", "rolled_back"}

\* the positions in applied of the statements on the key at day number n
StatementsOn(n) == { i \in 1 .. Len(applied) : applied[i].at = n }

\* the writer of the last statement on the key at day number n
LastWriterOn(n) ==
    applied[CHOOSE i \in StatementsOn(n) : \A j \in StatementsOn(n) : j <= i].writer

\* C23: when two store_weather_data calls write concurrently, whatever the
\* interleaving of their statements, after both have committed or rolled
\* back every key holds at most one row, and the row of a key written by a
\* committed call carries all four measurements of the writer whose statement
\* on that key was executed last; a key no committed call wrote is as it
\* was before.
LastStatementWins ==
    WritersDone =>
        \A n \in 1 .. TotalDays :
            LET rows == store["Mumbai"][n]
            IN  IF StatementsOn(n) = {}
                THEN /\ Len(rows) <= 1
                     /\ \A i \in 1 .. Len(rows) :
                            Measurements(rows[i]) = Measurements(Record("Mumbai", Calendar[n], 0))
                ELSE /\ Len(rows) = 1
                     /\ Measurements(rows[1])
                          = Measurements(Record("Mumbai", Calendar[n], LastWriterOn(n)))

\* both calls have committed, both wrote the key of 26 December, writer 2
\* began first and writer 1 wrote the key last
BothWritersWroteOneKey ==
    /\ \A w \in WriterIds : writers[w].state = "committed"
    /\ \A w \in WriterIds :
          \E i \in StatementsOn(ToOrdinal(<<BaseYear, 12, 26>>)) : applied[i].writer = w
    /\ applied[1].writer = 2
    /\ LastWriterOn(ToOrdinal(<<BaseYear, 12, 26>>)) = 1
    /\ Measurements(store["Mumbai"][ToOrdinal(<<BaseYear, 12, 26>>)][1])
         = Measurements(Record("Mumbai", <<BaseYear, 12, 26>>, 1))

\* the step is a call of get_available_cities
IsListStep ==
    /\ Len(log') = Len(log) + 1
    /\ log'[Len(log')].op = "list"

\* the list returned by the step holds the (city, country) of every stored
\* row, no pair twice, in ascending order of the city, and the table is as
\* it was
ListsStoredCities ==
    LET cities == returned'.cities
    IN  /\ store' = store
        /\ \A r \in StoredRows :
              \E i \in 1 .. Len(cities) : cities[i] = [city |-> r.city, country |-> r.country]
        /\ \A i \in 1 .. Len(cities) :
              \E r \in StoredRows : cities[i] = [city |-> r.city, country |-> r.country]
        /\ \A i, j \in 1 .. Len(cities) : i < j => cities[i] # cities[j]
        /\ \A i, j \in 1 .. Len(cities) :
              i < j => CityRank(cities[i].city) <= CityRank(cities[j].city)

\* C24: get_available_cities returns the (city, country) pair of every
\* stored row, each pair once, in ascending order of the city name, and
\* leaves the table unchanged.
ListCitiesDistinctSorted == [][IsListStep => ListsStoredCities]_vars

\* rows of Mumbai and of Bombay were stored in that order and the list then
\* returned names Bombay before Mumbai
TwoCitiesListed ==
    /\ returned # NoReturn
    /\ returned.by = "get_available_cities"
    /\ Len(log) = 2
    /\ log[1].op = "upsert"
    /\ log[1].batch[1].city = "Mumbai"
    /\ log[2].op = "list"
    /\ Len(returned.cities) = 2
    /\ returned.cities[1].city = "Bombay"
    /\ returned.cities[2].city = "Mumbai"

\* the days of a year by the rule of the Gregorian calendar
GregorianDays(year) ==
    IF year % 4 = 0 /\ (year % 100 # 0 \/ year % 400 = 0) THEN 366 ELSE 365

\* the dates of the rows stored by the collector for a city and year
CollectedDates(city_name, year) ==
    { main_table[i].date :
         i \in { k \in 1 .. Len(main_table) :
                    main_table[k].city = city_name /\ main_table[k].year = year } }

\* C25: has_complete_year_data answers true exactly when the number of
\* distinct dates stored for the city and year equals the number of days of
\* that year: 366 for a year divisible by 4 and not by 100, or divisible by
\* 400, and 365 otherwise (365 for 1900 and 2023, 366 for 2000 and 2024).
CompleteYearIsExact ==
    (returned # NoReturn /\ returned.by = "has_complete_year_data") =>
        LET days == Cardinality(CollectedDates(response.city_name, response.year))
        IN  /\ returned.complete = (days = GregorianDays(response.year))
            /\ response.year \in {1900, 2023} => returned.complete = (days = 365)
            /\ response.year \in {2000, 2024} => returned.complete = (days = 366)

\* the 365 days of 1900 are stored and the year is found complete
CenturyYearComplete ==
    /\ returned # NoReturn
    /\ returned.by = "has_complete_year_data"
    /\ response.year = 1900
    /\ response.city_name = "Mumbai"
    /\ Cardinality(CollectedDates("Mumbai", 1900)) = 365
    /\ returned.complete

\* the step is a call of insert_dataframe_to_db
IsInsertStep ==
    /\ Len(log') = Len(log) + 1
    /\ log'[Len(log')].op = "insert"

\* the positions of the rows of df whose (city, date) is neither stored
\* before the step nor carried by an earlier row of df
AddedBy(df, city_name) ==
    { i \in 1 .. Len(df) :
         /\ \A k \in 1 .. Len(main_table) :
               ~(main_table[k].city = city_name /\ main_table[k].date = df[i].time)
         /\ \A j \in 1 .. (i - 1) : df[j].time # df[i].time }

\* the step leaves every stored row as it was, adds one row for each new
\* (city, date) of df, carrying the values of the first row of df with that
\* key, and counts as many insertions as rows were added
InsertKeepsStoredRows ==
    LET df        == response'.df
        city_name == response'.city_name
        added     == AddedBy(df, city_name)
    IN  /\ Len(main_table') >= Len(main_table)
        /\ SubSeq(main_table', 1, Len(main_table)) = main_table
        /\ Len(main_table') - Len(main_table) = Cardinality(added)
        /\ returned'.inserted_count = Len(main_table') - Len(main_table)
        /\ \A i \in added :
              \E k \in (Len(main_table) + 1) .. Len(main_table') :
                 main_table'[k] = MainRow(df[i], city_name, main_table'[k].country,
                                          response'.year)

\* C27: insert_dataframe_to_db leaves a stored row whose (city, date) a row
\* of the DataFrame carries entirely unchanged, inserts a row for every new
\* key, and the count it reports is the number of rows added to the table.
InsertSkipsDuplicates == [][IsInsertStep => InsertKeepsStoredRows]_vars

\* a DataFrame with a stored day carrying other values and a day not yet
\* stored was inserted: one row was added and the stored day kept its values
DuplicateSkippedNewInserted ==
    /\ returned # NoReturn
    /\ returned.by = "insert_dataframe_to_db"
    /\ Len(log) = 1
    /\ Len(response.df) = 2
    /\ response.df[1].time # response.df[2].time
    /\ returned.inserted_count = 1
    /\ \E k \in 1 .. Len(main_table) :
          /\ main_table[k].date = response.df[1].time
          /\ main_table[k].temperature_max # response.df[1].temperature_2m_max

\* the positions of the records of batch whose (city, date) has no row when
\* the record is applied: none before the step and none from an earlier
\* record of batch
AbsentWhenApplied(batch) ==
    { i \in 1 .. Len(batch) :
         /\ RowsAt(store, batch[i].city, batch[i].date) = <<>>
         /\ \A j \in 1 .. (i - 1) :
               ~(batch[j].city = batch[i].city /\ batch[j].date = batch[i].date) }

\* the upsert step counts the records with an absent key as inserted and all
\* the others as updated
CountsInsertedAndUpdated ==
    LET batch == log'[Len(log')].batch
    IN  /\ upserted'.inserted_count = Cardinality(AbsentWhenApplied(batch))
        /\ upserted'.updated_count = Len(batch) - Cardinality(AbsentWhenApplied(batch))

\* C26: store_weather_data counts as inserted the records whose
\* (city, date) was absent when applied and as updated those whose key was
\* present, so that the two counts add up to the size of the batch, also for
\* a record carrying the values its row already has.
UpsertCountsAddUp == [][IsUpsertStep => CountsInsertedAndUpdated]_vars

\* the request being returned fetched its range and stored what it fetched
RangeFetchedAndStored ==
    /\ pc = "done"
    /\ \E i \in At({"store_range"}) : trace[i].ok /\ trace[i].n > 0

\* C28: a request that fetched its range and stored the records looks them
\* up under the name they were stored under: its final read returns every
\* record stored for the requested place within the range, whatever name
\* the resolver accepts the place was asked by.
FinalReadFindsFetchedRange ==
    RangeFetchedAndStored =>
        \A n \in DaysWithin(call.start_date, call.end_date) :
            \A i \in 1 .. Len(store[StoredAs(call.city_name)][n]) :
                \E k \in 1 .. Len(result) :
                    /\ result[k].date = Calendar[n]
                    /\ Measurements(result[k])
                         = Measurements(store[StoredAs(call.city_name)][n][i])

\* the step is the iteration of a request's loop for a year its city has
\* complete
IsStepOfCompleteYear ==
    /\ pc = "years"
    /\ yearIdx <= Len(years)
    /\ Len(trace') > Len(trace)
    /\ CheckYearCompleteness(store, call.city_name, years[yearIdx])

\* the step leaves every complete year of every city complete, unless it is
\* the purge of that city, and when it is the iteration of a request for a
\* complete year it records the check and no resolver, archive or store call
CompleteYearKept ==
    /\ \A c \in PlaceNames, y \in Years :
          \/ store'[c] = store[c]
          \/ ~CheckYearCompleteness(store, c, y)
          \/ CheckYearCompleteness(store', c, y)
          \/ IsPurgeStep /\ \A n \in 1 .. TotalDays : store'[c][n] = <<>>
    /\ IsStepOfCompleteYear =>
          /\ Len(trace') = Len(trace) + 1
          /\ trace'[Len(trace')].ev = "check_year"
          /\ trace'[Len(trace')].ok
          /\ store' = store

\* C29: a year that check_year_completeness finds complete for a city stays
\* complete through every upsert and every request, until that city is
\* purged, and a request never fetches a year that is complete for its
\* city, also when days of the year are not stored.
CompleteYearStaysComplete == [][CompleteYearKept]_vars

\* the second of two operations was a request whose year had been stored
\* with days missing: the year was found complete, nothing was fetched and
\* the days are still missing
CompleteYearWithGapsNotFetched ==
    /\ pc = "done"
    /\ Len(log) = 2
    /\ missing > 0
    /\ At({"check_year"}) # {}
    /\ \A i \in At({"check_year"}) : trace[i].ok
    /\ At({"resolve_year", "fetch_year"}) = {}
    /\ \E i \in At({"check_year"}) :
          LET stored == CountYear(store, call.city_name, trace[i].start[1])
          IN  stored >= CompleteDays /\ stored < DaysInYear(trace[i].start[1])

\* the events the step adds to the trace
NewEvents == { i \in 1 .. Len(trace') : i > Len(trace) }

\* the step is the range step of a request whose range the stored dates cover
IsStepOfCoveredRange ==
    /\ pc = "range"
    /\ Len(trace') > Len(trace)
    /\ CheckDateRangeCoverage(store, call.city_name, call.start_date, call.end_date)

\* a step of a request for a range or a year that the stored dates make
\* sufficient calls neither the resolver nor the archive and leaves the table
\* as it is
SufficientDataNotFetched ==
    (IsStepOfCoveredRange \/ IsStepOfCompleteYear) =>
        /\ \A i \in NewEvents :
              trace'[i].ev \notin {"resolve_range", "fetch_range", "resolve_year", "fetch_year"}
        /\ store' = store

\* C30: the two checks read the table, call no service and change no row,
\* and their answer depends on the stored dates alone: also when a check
\* cannot reach the table, a request calls neither the resolver nor the
\* archive for a range or a year that is already sufficiently stored.
ChecksDependOnStoredDatesOnly == [][SufficientDataNotFetched]_vars

====
